---- MODULE Spec2Model ----
(***************************************************************************)
(* The arith dialect of mlir-rs: the integer operations declared in        *)
(* mlir/src/dialect/arith/ir/operations.rs, the arithmetic each of them is *)
(* documented to compute, and the host-facing services built on them       *)
(* (verify, fold, getSpeculatability, assembly, range inference and the    *)
(* canonicalizer).                                                         *)
(*                                                                         *)
(* An N-bit signless integer is its bit pattern, a natural in 0..2^N-1.    *)
(***************************************************************************)
EXTENDS Integers, Sequences, FiniteSets, TLC

VARIABLES op, pc, results, speculatability, operandRanges, resultRange,
          diagnostic, assembly, parsed, ir, rewrite

vars == <<op, pc, results, speculatability, operandRanges, resultRange,
          diagnostic, assembly, parsed, ir, rewrite>>

(***************************************************************************)
(* Bounds of the model.                                                    *)
(***************************************************************************)
\* widths 1..MaxWidth of the integer types the host builds ops on
MaxWidth == 4
\* number of distinct SSA values that are not produced by arith.constant
NumValues == 2
\* widths 1..MaxDstWidth of the destination type of a cast
MaxDstWidth == 6
\* widths 1..MaxRangeWidth of the integer types range inference is run on
MaxRangeWidth == 3
\* widths 1..MaxCanonWidth of the integer types the canonicalizer is run on
MaxCanonWidth == 2

Widths == 1..MaxWidth

Pow2(n) == 2 ^ n

Patterns(w) == 0..(Pow2(w) - 1)

(***************************************************************************)
(* Bit-level helpers: an N-bit pattern as the sequence of its bits, least  *)
(* significant first.                                                      *)
(***************************************************************************)
Bit(x, i) == (x \div Pow2(i)) % 2

Bits(w, x) == [i \in 1..w |-> Bit(x, i - 1)]

RECURSIVE FromBits(_)
FromBits(bs) ==
    IF bs = <<>> THEN 0 ELSE Head(bs) + 2 * FromBits(Tail(bs))

MSB(w, x) == Bit(x, w - 1)

AllOnes(w) == Pow2(w) - 1

\* the leading bit read as sign: two's complement
Signed(w, x) == IF MSB(w, x) = 1 THEN x - Pow2(w) ELSE x

\* the N-bit pattern of an integer
Wrap(w, n) == n % Pow2(w)

SignedMin(w) == Pow2(w - 1)

SignedMaxMutUnsigned(w) == Pow2(w) - 1
SignedMax(w) == Pow2(w - 1) - 1

(***************************************************************************)
(* What each integer operation computes on N-bit patterns, as documented   *)
(* in the operation definitions.                                           *)
(***************************************************************************)
RECURSIVE BitAnd(_, _, _)
BitAnd(w, a, b) ==
    IF w = 0 THEN 0
    ELSE (IF a % 2 = 1 /\ b % 2 = 1 THEN 1 ELSE 0)
         + 2 * BitAnd(w - 1, a \div 2, b \div 2)

RECURSIVE BitOr(_, _, _)
BitOr(w, a, b) ==
    IF w = 0 THEN 0
    ELSE (IF a % 2 = 1 \/ b % 2 = 1 THEN 1 ELSE 0)
         + 2 * BitOr(w - 1, a \div 2, b \div 2)

RECURSIVE BitXor(_, _, _)
BitXor(w, a, b) ==
    IF w = 0 THEN 0
    ELSE (IF a % 2 # b % 2 THEN 1 ELSE 0)
         + 2 * BitXor(w - 1, a \div 2, b \div 2)

Abs(n) == IF n < 0 THEN -n ELSE n

\* quotient rounded towards zero
TruncDiv(a, b) ==
    IF (a < 0) = (b < 0) THEN Abs(a) \div Abs(b) ELSE -(Abs(a) \div Abs(b))

\* quotient rounded towards positive infinity
CeilDiv(a, b) == -((-a) \div b)

\* quotient rounded towards negative infinity
FloorDiv(a, b) == a \div b

AddIMutSaturating(w, a, b) == IF a + b > AllOnes(w) THEN AllOnes(w) ELSE a + b
AddI(w, a, b) == Wrap(w, a + b)

SubIMutSwapped(w, a, b) == Wrap(w, b - a)
SubI(w, a, b) == Wrap(w, a - b)

MulIMutSaturating(w, a, b) ==
    IF a * b > Pow2(w) - 1 THEN Pow2(w) - 1 ELSE a * b
MulI(w, a, b) == Wrap(w, a * b)

AndI(w, a, b) == BitAnd(w, a, b)

OrIMutAnd(w, a, b) == BitAnd(w, a, b)
OrI(w, a, b) == BitOr(w, a, b)

XOrIMutOr(w, a, b) == BitOr(w, a, b)
XOrI(w, a, b) == BitXor(w, a, b)

\* zero extension from width m to width n: the top n - m bits are zeros
ExtUIMutSignExtend(m, n, x) ==
    FromBits(Bits(m, x) \o [i \in 1..(n - m) |-> MSB(m, x)])
ExtUI(m, n, x) == FromBits(Bits(m, x) \o [i \in 1..(n - m) |-> 0])

\* sign extension from width m to width n: the top n - m bits are copies of
\* the most significant bit of the input
ExtSIMutHighZero(m, n, x) == FromBits(Bits(m, x) \o [i \in 1..(n - m) |-> 0])
ExtSI(m, n, x) == FromBits(Bits(m, x) \o [i \in 1..(n - m) |-> MSB(m, x)])

\* truncation from width m to width n: the top m - n bits are discarded
TruncIMutKeepHigh(m, n, x) == FromBits(SubSeq(Bits(m, x), m - n + 1, m))
TruncI(m, n, x) == FromBits(SubSeq(Bits(m, x), 1, n))

\* (N+1)-bit addition on the zero-extended operands: <<N-bit sum, overflow bit>>
AddUIExtendedMutSignedOverflow(w, a, b) ==
    <<Wrap(w, a + b),
      IF Signed(w, a) + Signed(w, b) > SignedMax(w) THEN 1 ELSE 0>>
AddUIExtended(w, a, b) ==
    LET wide == AddI(w + 1, ExtUI(w, w + 1, a), ExtUI(w, w + 1, b))
    IN  <<TruncI(w + 1, w, wide), Bit(wide, w)>>

\* the high half of a 2N-bit pattern
HighHalf(w, p) == FromBits(SubSeq(Bits(2 * w, p), w + 1, 2 * w))

\* 2N-bit multiplication on the sign-extended operands: <<low, high>>
MulSIExtendedMutZeroExtended(w, a, b) ==
    LET wide == MulI(2 * w, ExtUI(w, 2 * w, a), ExtUI(w, 2 * w, b))
    IN  <<TruncI(2 * w, w, wide), HighHalf(w, wide)>>
MulSIExtended(w, a, b) ==
    LET wide == MulI(2 * w, ExtSI(w, 2 * w, a), ExtSI(w, 2 * w, b))
    IN  <<TruncI(2 * w, w, wide), HighHalf(w, wide)>>

\* 2N-bit multiplication on the zero-extended operands: <<low, high>>
MulUIExtended(w, a, b) ==
    LET wide == MulI(2 * w, ExtUI(w, 2 * w, a), ExtUI(w, 2 * w, b))
    IN  <<TruncI(2 * w, w, wide), HighHalf(w, wide)>>

\* division by zero is left without semantics
DivUIDefined(w, a, b) == b # 0

\* division by zero and the minimum value divided by -1 are left without
\* semantics
DivSIDefinedMutZeroOnly(w, a, b) == b # 0
DivSIDefined(w, a, b) == b # 0 /\ ~(a = SignedMin(w) /\ b = AllOnes(w))

DivUI(w, a, b) == TruncDiv(a, b)

DivSI(w, a, b) == Wrap(w, TruncDiv(Signed(w, a), Signed(w, b)))

CeilDivUI(w, a, b) == Wrap(w, CeilDiv(a, b))

CeilDivSI(w, a, b) == Wrap(w, CeilDiv(Signed(w, a), Signed(w, b)))

FloorDivSIMutTruncating(w, a, b) ==
    Wrap(w, TruncDiv(Signed(w, a), Signed(w, b)))
FloorDivSI(w, a, b) == Wrap(w, FloorDiv(Signed(w, a), Signed(w, b)))

RemUI(w, a, b) == a - b * TruncDiv(a, b)

RemSI(w, a, b) ==
    Wrap(w, Signed(w, a) - Signed(w, b) * TruncDiv(Signed(w, a), Signed(w, b)))

\* left shift by s < w: the low order bits are filled with zeros
ShLIMutRotate(w, x, s) ==
    FromBits([i \in 1..w |-> IF i > s THEN Bit(x, i - 1 - s)
                          ELSE Bit(x, w - s + i - 1)])
ShLI(w, x, s) ==
    FromBits([i \in 1..w |-> IF i > s THEN Bit(x, i - 1 - s) ELSE 0])

\* right shift by s < w: the high order bits are filled with zeros
ShRUIMutSignFill(w, x, s) ==
    FromBits([i \in 1..w |-> IF i + s <= w THEN Bit(x, i - 1 + s) ELSE MSB(w, x)])
ShRUI(w, x, s) ==
    FromBits([i \in 1..w |-> IF i + s <= w THEN Bit(x, i - 1 + s) ELSE 0])

\* right shift by s < w: the high order bits are filled with copies of the
\* most significant bit of the shifted value
ShRSIMutZeroFill(w, x, s) ==
    FromBits([i \in 1..w |-> IF i + s <= w THEN Bit(x, i - 1 + s) ELSE 0])
ShRSI(w, x, s) ==
    FromBits([i \in 1..w |-> IF i + s <= w THEN Bit(x, i - 1 + s) ELSE MSB(w, x)])

MaxSI(w, a, b) == IF Signed(w, a) >= Signed(w, b) THEN a ELSE b

MaxUI(w, a, b) == IF a >= b THEN a ELSE b

MinSI(w, a, b) == IF Signed(w, a) <= Signed(w, b) THEN a ELSE b

MinUI(w, a, b) == IF a <= b THEN a ELSE b

(***************************************************************************)
(* cmpi: the predicate attribute is an integer; the custom assembly form   *)
(* writes it as a keyword.                                                 *)
(***************************************************************************)
CmpIPredicateNamesMutUnsignedFirst ==
    <<"eq", "ne", "ult", "ule", "ugt", "uge", "slt", "sle", "sgt", "sge">>
CmpIPredicateNames ==
    <<"eq", "ne", "slt", "sle", "sgt", "sge", "ult", "ule", "ugt", "uge">>

CmpIPredicates == {i - 1 : i \in DOMAIN CmpIPredicateNames}

PredicateName(p) == CmpIPredicateNames[p + 1]

getPredicateByName(name) ==
    CHOOSE p \in CmpIPredicates : PredicateName(p) = name

\* 1 if the comparison is true and 0 otherwise
CmpIMutAllSigned(w, pred, a, b) ==
    LET n == PredicateName(pred)
        sa == Signed(w, a)
        sb == Signed(w, b)
        holds == CASE n = "eq" -> a = b
                   [] n = "ne" -> a # b
                   [] n \in {"slt", "ult"} -> sa < sb
                   [] n \in {"sle", "ule"} -> sa <= sb
                   [] n \in {"sgt", "ugt"} -> sa > sb
                   [] n \in {"sge", "uge"} -> sa >= sb
    IN  IF holds THEN 1 ELSE 0
CmpIMutEqNeSwapped(w, pred, a, b) ==
    LET n == PredicateName(pred)
        sa == Signed(w, a)
        sb == Signed(w, b)
        holds == CASE n = "eq" -> a # b
                   [] n = "ne" -> a = b
                   [] n = "slt" -> sa < sb
                   [] n = "sle" -> sa <= sb
                   [] n = "sgt" -> sa > sb
                   [] n = "sge" -> sa >= sb
                   [] n = "ult" -> a < b
                   [] n = "ule" -> a <= b
                   [] n = "ugt" -> a > b
                   [] n = "uge" -> a >= b
    IN  IF holds THEN 1 ELSE 0
CmpIMutStrictOnly(w, pred, a, b) ==
    LET n == PredicateName(pred)
        sa == Signed(w, a)
        sb == Signed(w, b)
        holds == CASE n = "eq" -> a = b
                   [] n = "ne" -> a # b
                   [] n \in {"slt", "sle"} -> sa < sb
                   [] n \in {"sgt", "sge"} -> sa > sb
                   [] n \in {"ult", "ule"} -> a < b
                   [] n \in {"ugt", "uge"} -> a > b
    IN  IF holds THEN 1 ELSE 0
CmpI(w, pred, a, b) ==
    LET n == PredicateName(pred)
        sa == Signed(w, a)
        sb == Signed(w, b)
        holds == CASE n = "eq" -> a = b
                   [] n = "ne" -> a # b
                   [] n = "slt" -> sa < sb
                   [] n = "sle" -> sa <= sb
                   [] n = "sgt" -> sa > sb
                   [] n = "sge" -> sa >= sb
                   [] n = "ult" -> a < b
                   [] n = "ule" -> a <= b
                   [] n = "ugt" -> a > b
                   [] n = "uge" -> a >= b
    IN  IF holds THEN 1 ELSE 0

\* if the condition is 1 the second operand is chosen, otherwise the third
SelectMutInverted(c, t, f) == IF c = 1 THEN f ELSE t
Select(c, t, f) == IF c = 1 THEN t ELSE f

(***************************************************************************)
(* Operations.  An operand is an SSA value: either the result of an        *)
(* arith.constant (const, v its bit pattern) or some other value (v its    *)
(* identity).  Two constant operands of equal bit pattern are one SSA      *)
(* value exactly when the op's alias flag is set.                          *)
(***************************************************************************)
ConstOperand(v) == [const |-> TRUE, v |-> v]

ValueOperand(id) == [const |-> FALSE, v |-> id]

Operands(w) ==
    {ConstOperand(v) : v \in Patterns(w)}
        \cup {ValueOperand(id) : id \in 0..(NumValues - 1)}

TotalIntBinaryOps ==
    {"addi", "subi", "muli", "floordivsi", "remui", "remsi", "andi", "ori",
     "xori", "shli", "shrui", "shrsi", "maxsi", "maxui", "minsi", "minui"}

ConditionallySpeculatableOps == {"divui", "divsi", "ceildivui", "ceildivsi"}

IntBinaryOps == TotalIntBinaryOps \cup ConditionallySpeculatableOps

ExtendedOps == {"addui_extended", "mulsi_extended", "mului_extended"}

IToICastOps == {"extui", "extsi", "trunci"}

Commutative ==
    {"addi", "muli", "andi", "ori", "xori", "maxsi", "maxui", "minsi",
     "minui", "addui_extended", "mulsi_extended", "mului_extended"}

IdempotentMutOrOnly == {"ori"}
Idempotent == {"andi", "ori"}

HasFolder ==
    IntBinaryOps \cup ExtendedOps \cup IToICastOps
        \cup {"constant", "cmpi", "select"}

HasVerifierMutNoTruncI == {"constant", "extui", "extsi", "select"}
HasVerifier == {"constant", "extui", "extsi", "trunci", "select"}

\* name: mnemonic; w: width of the operands; dw: width of the result;
\* pred: the predicate attribute of cmpi; args: the operands in order
Op(name, w, dw, pred, args, alias) ==
    [name |-> name, w |-> w, dw |-> dw, pred |-> pred, args |-> args,
     alias |-> alias]

NoOp == Op("none", 0, 0, 0, <<>>, FALSE)

NumResultsMutSingle(o) == 1
NumResults(o) == IF o.name \in ExtendedOps THEN 2 ELSE 1

\* the declared type (width) of result i
ResultWidthMutOperandType(o, i) == IF o.name \in IToICastOps THEN o.dw ELSE o.w
ResultWidth(o, i) ==
    CASE o.name = "cmpi" -> 1
      [] o.name = "addui_extended" /\ i = 2 -> 1
      [] o.name \in IToICastOps -> o.dw
      [] OTHER -> o.w

lhs(o) == o.args[1]

rhs(o) == o.args[2]

\* lhs and rhs are one SSA value
SameOperands(o) == lhs(o) = rhs(o) /\ (lhs(o).const => o.alias)

(***************************************************************************)
(* Verifier: the cast widths obey the strict inequality.                   *)
(***************************************************************************)
verify(o) ==
    CASE o.name \notin HasVerifier -> TRUE
      [] o.name \in {"extui", "extsi"} -> o.dw > o.w
      [] o.name = "trunci" -> o.dw < o.w
      [] OTHER -> TRUE

\* the diagnostic verify emits: the cast widths are the only rule an op of
\* scalar integer type can break
emitOpError(o) == IF verify(o) THEN "none" ELSE "width violation"

(***************************************************************************)
(* Folder.  The result of folding one op result is a constant attribute,   *)
(* an existing SSA value (one of the operands, named by its position), or  *)
(* nothing; fold returns one entry per op result, or <<>> for no change.   *)
(***************************************************************************)
Attr(w, v) == [tag |-> "attr", w |-> w, v |-> v]

Existing(i) == [tag |-> "value", w |-> 0, v |-> i]

NoChange == <<>>

m_Constant(a) == a.const

m_Zero(a) == a.const /\ a.v = 0

m_One(a) == a.const /\ a.v = 1

m_AllOnes(w, a) == a.const /\ a.v = AllOnes(w)

m_NonZero(a) == a.const /\ a.v # 0

BothConstant(o) == m_Constant(lhs(o)) /\ m_Constant(rhs(o))

\* the fold of each op, and the dispatch on the op's name
fold(o) ==
    LET Arith_AddIOp_fold(x) ==
            IF m_Zero(rhs(x)) THEN <<Existing(1)>>
            ELSE IF BothConstant(x) THEN <<Attr(ResultWidth(x, 1), AddI(x.w, lhs(x).v, rhs(x).v))>>
            ELSE NoChange

        Arith_SubIOp_fold(x) ==
            IF SameOperands(x) THEN <<Attr(ResultWidth(x, 1), 0)>>
            ELSE IF m_Zero(rhs(x)) THEN <<Existing(1)>>
            ELSE IF BothConstant(x) THEN <<Attr(ResultWidth(x, 1), SubI(x.w, lhs(x).v, rhs(x).v))>>
            ELSE NoChange

        Arith_MulIOp_fold(x) ==
            IF m_Zero(rhs(x)) THEN <<Existing(2)>>
            ELSE IF m_One(rhs(x)) THEN <<Existing(1)>>
            ELSE IF BothConstant(x) THEN <<Attr(ResultWidth(x, 1), MulI(x.w, lhs(x).v, rhs(x).v))>>
            ELSE NoChange

        Arith_AddUIExtendedOp_fold(x) ==
            IF m_Zero(rhs(x)) THEN <<Existing(1), Attr(ResultWidth(x, 2), 0)>>
            ELSE IF BothConstant(x)
            THEN LET r == AddUIExtended(x.w, lhs(x).v, rhs(x).v)
                 IN  <<Attr(ResultWidth(x, 1), r[1]), Attr(ResultWidth(x, 2), r[2])>>
            ELSE NoChange

        Arith_MulSIExtendedOp_fold(x) ==
            IF m_Zero(rhs(x)) THEN <<Existing(2), Existing(2)>>
            ELSE IF BothConstant(x)
            THEN LET r == MulSIExtended(x.w, lhs(x).v, rhs(x).v)
                 IN  <<Attr(ResultWidth(x, 1), r[1]), Attr(ResultWidth(x, 2), r[2])>>
            ELSE NoChange

        Arith_MulUIExtendedOp_fold(x) ==
            IF m_Zero(rhs(x)) THEN <<Existing(2), Existing(2)>>
            ELSE IF BothConstant(x)
            THEN LET r == MulUIExtended(x.w, lhs(x).v, rhs(x).v)
                 IN  <<Attr(ResultWidth(x, 1), r[1]), Attr(ResultWidth(x, 2), r[2])>>
            ELSE NoChange

        Arith_DivUIOp_fold(x) ==
            IF m_One(rhs(x)) THEN <<Existing(1)>>
            ELSE IF BothConstant(x) /\ DivUIDefined(x.w, lhs(x).v, rhs(x).v)
            THEN <<Attr(ResultWidth(x, 1), DivUI(x.w, lhs(x).v, rhs(x).v))>>
            ELSE NoChange

        Arith_DivSIOp_fold(x) ==
            IF m_One(rhs(x)) THEN <<Existing(1)>>
            ELSE IF BothConstant(x) /\ DivSIDefined(x.w, lhs(x).v, rhs(x).v)
            THEN <<Attr(ResultWidth(x, 1), DivSI(x.w, lhs(x).v, rhs(x).v))>>
            ELSE NoChange

        Arith_CeilDivUIOp_fold(x) ==
            IF m_One(rhs(x)) THEN <<Existing(1)>>
            ELSE IF BothConstant(x) /\ DivUIDefined(x.w, lhs(x).v, rhs(x).v)
            THEN <<Attr(ResultWidth(x, 1), CeilDivUI(x.w, lhs(x).v, rhs(x).v))>>
            ELSE NoChange

        Arith_CeilDivSIOp_fold(x) ==
            IF m_One(rhs(x)) THEN <<Existing(1)>>
            ELSE IF BothConstant(x) /\ DivSIDefined(x.w, lhs(x).v, rhs(x).v)
            THEN <<Attr(ResultWidth(x, 1), CeilDivSI(x.w, lhs(x).v, rhs(x).v))>>
            ELSE NoChange

        Arith_FloorDivSIOp_fold(x) ==
            IF m_One(rhs(x)) THEN <<Existing(1)>>
            ELSE IF BothConstant(x) /\ DivSIDefined(x.w, lhs(x).v, rhs(x).v)
            THEN <<Attr(ResultWidth(x, 1), FloorDivSI(x.w, lhs(x).v, rhs(x).v))>>
            ELSE NoChange

        Arith_RemUIOp_fold(x) ==
            IF m_One(rhs(x)) THEN <<Attr(ResultWidth(x, 1), 0)>>
            ELSE IF BothConstant(x) /\ DivUIDefined(x.w, lhs(x).v, rhs(x).v)
            THEN <<Attr(ResultWidth(x, 1), RemUI(x.w, lhs(x).v, rhs(x).v))>>
            ELSE NoChange

        Arith_RemSIOp_fold(x) ==
            IF m_One(rhs(x)) THEN <<Attr(ResultWidth(x, 1), 0)>>
            ELSE IF BothConstant(x) /\ DivUIDefined(x.w, lhs(x).v, rhs(x).v)
            THEN <<Attr(ResultWidth(x, 1), RemSI(x.w, lhs(x).v, rhs(x).v))>>
            ELSE NoChange

        Arith_AndIOp_fold(x) ==
            IF m_Zero(rhs(x)) THEN <<Existing(2)>>
            ELSE IF m_AllOnes(x.w, rhs(x)) THEN <<Existing(1)>>
            ELSE IF x.name \in Idempotent /\ SameOperands(x) THEN <<Existing(1)>>
            ELSE IF BothConstant(x) THEN <<Attr(ResultWidth(x, 1), AndI(x.w, lhs(x).v, rhs(x).v))>>
            ELSE NoChange

        Arith_OrIOp_fold(x) ==
            IF m_Zero(rhs(x)) THEN <<Existing(1)>>
            ELSE IF m_AllOnes(x.w, rhs(x)) THEN <<Existing(2)>>
            ELSE IF x.name \in Idempotent /\ SameOperands(x) THEN <<Existing(1)>>
            ELSE IF BothConstant(x) THEN <<Attr(ResultWidth(x, 1), OrI(x.w, lhs(x).v, rhs(x).v))>>
            ELSE NoChange

        Arith_XOrIOp_fold(x) ==
            IF m_Zero(rhs(x)) THEN <<Existing(1)>>
            ELSE IF SameOperands(x) THEN <<Attr(ResultWidth(x, 1), 0)>>
            ELSE IF BothConstant(x) THEN <<Attr(ResultWidth(x, 1), XOrI(x.w, lhs(x).v, rhs(x).v))>>
            ELSE NoChange

        \* a shift amount of the width or more is poison: no change
        Arith_ShLIOp_fold(x) ==
            IF m_Zero(rhs(x)) THEN <<Existing(1)>>
            ELSE IF BothConstant(x) /\ rhs(x).v < x.w
            THEN <<Attr(ResultWidth(x, 1), ShLI(x.w, lhs(x).v, rhs(x).v))>>
            ELSE NoChange

        Arith_ShRUIOp_fold(x) ==
            IF m_Zero(rhs(x)) THEN <<Existing(1)>>
            ELSE IF BothConstant(x) /\ rhs(x).v < x.w
            THEN <<Attr(ResultWidth(x, 1), ShRUI(x.w, lhs(x).v, rhs(x).v))>>
            ELSE NoChange

        Arith_ShRSIOp_fold(x) ==
            IF m_Zero(rhs(x)) THEN <<Existing(1)>>
            ELSE IF BothConstant(x) /\ rhs(x).v < x.w
            THEN <<Attr(ResultWidth(x, 1), ShRSI(x.w, lhs(x).v, rhs(x).v))>>
            ELSE NoChange

        Arith_MaxSIOp_fold(x) ==
            IF SameOperands(x) THEN <<Existing(1)>>
            ELSE IF BothConstant(x) THEN <<Attr(ResultWidth(x, 1), MaxSI(x.w, lhs(x).v, rhs(x).v))>>
            ELSE NoChange

        Arith_MaxUIOp_fold(x) ==
            IF SameOperands(x) THEN <<Existing(1)>>
            ELSE IF BothConstant(x) THEN <<Attr(ResultWidth(x, 1), MaxUI(x.w, lhs(x).v, rhs(x).v))>>
            ELSE NoChange

        Arith_MinSIOp_fold(x) ==
            IF SameOperands(x) THEN <<Existing(1)>>
            ELSE IF BothConstant(x) THEN <<Attr(ResultWidth(x, 1), MinSI(x.w, lhs(x).v, rhs(x).v))>>
            ELSE NoChange

        Arith_MinUIOp_fold(x) ==
            IF SameOperands(x) THEN <<Existing(1)>>
            ELSE IF BothConstant(x) THEN <<Attr(ResultWidth(x, 1), MinUI(x.w, lhs(x).v, rhs(x).v))>>
            ELSE NoChange

        Arith_ExtUIOp_fold(x) ==
            IF m_Constant(x.args[1]) THEN <<Attr(ResultWidth(x, 1), ExtUI(x.w, x.dw, x.args[1].v))>>
            ELSE NoChange

        Arith_ExtSIOp_fold(x) ==
            IF m_Constant(x.args[1]) THEN <<Attr(ResultWidth(x, 1), ExtSI(x.w, x.dw, x.args[1].v))>>
            ELSE NoChange

        Arith_TruncIOp_fold(x) ==
            IF m_Constant(x.args[1]) THEN <<Attr(ResultWidth(x, 1), TruncI(x.w, x.dw, x.args[1].v))>>
            ELSE NoChange

        \* self-compare, then constants
        Arith_CmpIOp_fold(x) ==
            IF SameOperands(x) THEN <<Attr(ResultWidth(x, 1), CmpI(x.w, x.pred, 0, 0))>>
            ELSE IF BothConstant(x)
            THEN <<Attr(ResultWidth(x, 1), CmpI(x.w, x.pred, lhs(x).v, rhs(x).v))>>
            ELSE NoChange

        \* args: <<condition, true_value, false_value>>
        SelectOp_fold(x) ==
            IF x.args[2] = x.args[3] /\ (x.args[2].const => x.alias)
            THEN <<Existing(2)>>
            ELSE IF m_Constant(x.args[1])
            THEN <<Existing(IF Select(x.args[1].v, 2, 3) = 2 THEN 2 ELSE 3)>>
            ELSE NoChange

        Arith_ConstantOp_fold(x) == <<Attr(ResultWidth(x, 1), x.args[1].v)>>
    IN  CASE o.name = "constant" -> Arith_ConstantOp_fold(o)
          [] o.name = "addi" -> Arith_AddIOp_fold(o)
          [] o.name = "subi" -> Arith_SubIOp_fold(o)
          [] o.name = "muli" -> Arith_MulIOp_fold(o)
          [] o.name = "addui_extended" -> Arith_AddUIExtendedOp_fold(o)
          [] o.name = "mulsi_extended" -> Arith_MulSIExtendedOp_fold(o)
          [] o.name = "mului_extended" -> Arith_MulUIExtendedOp_fold(o)
          [] o.name = "divui" -> Arith_DivUIOp_fold(o)
          [] o.name = "divsi" -> Arith_DivSIOp_fold(o)
          [] o.name = "ceildivui" -> Arith_CeilDivUIOp_fold(o)
          [] o.name = "ceildivsi" -> Arith_CeilDivSIOp_fold(o)
          [] o.name = "floordivsi" -> Arith_FloorDivSIOp_fold(o)
          [] o.name = "remui" -> Arith_RemUIOp_fold(o)
          [] o.name = "remsi" -> Arith_RemSIOp_fold(o)
          [] o.name = "andi" -> Arith_AndIOp_fold(o)
          [] o.name = "ori" -> Arith_OrIOp_fold(o)
          [] o.name = "xori" -> Arith_XOrIOp_fold(o)
          [] o.name = "shli" -> Arith_ShLIOp_fold(o)
          [] o.name = "shrui" -> Arith_ShRUIOp_fold(o)
          [] o.name = "shrsi" -> Arith_ShRSIOp_fold(o)
          [] o.name = "maxsi" -> Arith_MaxSIOp_fold(o)
          [] o.name = "maxui" -> Arith_MaxUIOp_fold(o)
          [] o.name = "minsi" -> Arith_MinSIOp_fold(o)
          [] o.name = "minui" -> Arith_MinUIOp_fold(o)
          [] o.name = "extui" -> Arith_ExtUIOp_fold(o)
          [] o.name = "extsi" -> Arith_ExtSIOp_fold(o)
          [] o.name = "trunci" -> Arith_TruncIOp_fold(o)
          [] o.name = "cmpi" -> Arith_CmpIOp_fold(o)
          [] o.name = "select" -> SelectOp_fold(o)
          [] OTHER -> NoChange

\* the fold rules of each op taken one by one: the outcomes of all the
\* rules that match the op, in no order.  The rules that forbid a fold (a
\* division by 0, a signed division that overflows, a shift by the width or
\* more) have the outcome NoChange.
foldRules(o) ==
    LET zero == m_Zero(rhs(o))
        one == m_One(rhs(o))
        ones == m_AllOnes(o.w, rhs(o))
        both == BothConstant(o)
        a == lhs(o).v
        b == rhs(o).v
        K(v) == <<Attr(ResultWidth(o, 1), v)>>
        K2(r) == <<Attr(ResultWidth(o, 1), r[1]), Attr(ResultWidth(o, 2), r[2])>>
        X == <<Existing(1)>>
        Y == <<Existing(2)>>
        udiv == both /\ DivUIDefined(o.w, a, b)
        sdiv == both /\ DivSIDefined(o.w, a, b)
        shift == both /\ b < o.w
        self == SameOperands(o)
        byZero == IF zero THEN {NoChange} ELSE {}
        overflow ==
            IF both /\ b # 0 /\ ~DivSIDefined(o.w, a, b) THEN {NoChange} ELSE {}
        poison == IF m_Constant(rhs(o)) /\ b >= o.w THEN {NoChange} ELSE {}
    IN  CASE o.name = "constant" -> {<<Attr(ResultWidth(o, 1), o.args[1].v)>>}
          [] o.name = "addi" ->
                 (IF zero THEN {X} ELSE {})
                     \cup (IF both THEN {K(AddI(o.w, a, b))} ELSE {})
          [] o.name = "subi" ->
                 (IF zero THEN {X} ELSE {})
                     \cup (IF self THEN {K(0)} ELSE {})
                     \cup (IF both THEN {K(SubI(o.w, a, b))} ELSE {})
          [] o.name = "muli" ->
                 (IF zero THEN {Y} ELSE {})
                     \cup (IF one THEN {X} ELSE {})
                     \cup (IF both THEN {K(MulI(o.w, a, b))} ELSE {})
          [] o.name = "addui_extended" ->
                 (IF zero THEN {<<Existing(1), Attr(ResultWidth(o, 2), 0)>>} ELSE {})
                     \cup (IF both THEN {K2(AddUIExtended(o.w, a, b))} ELSE {})
          [] o.name = "mulsi_extended" ->
                 (IF zero THEN {<<Existing(2), Existing(2)>>} ELSE {})
                     \cup (IF both THEN {K2(MulSIExtended(o.w, a, b))} ELSE {})
          [] o.name = "mului_extended" ->
                 (IF zero THEN {<<Existing(2), Existing(2)>>} ELSE {})
                     \cup (IF both THEN {K2(MulUIExtended(o.w, a, b))} ELSE {})
          [] o.name = "divui" ->
                 byZero \cup (IF one THEN {X} ELSE {})
                     \cup (IF udiv THEN {K(DivUI(o.w, a, b))} ELSE {})
          [] o.name = "divsi" ->
                 byZero \cup overflow \cup (IF one THEN {X} ELSE {})
                     \cup (IF sdiv THEN {K(DivSI(o.w, a, b))} ELSE {})
          [] o.name = "ceildivui" ->
                 byZero \cup (IF one THEN {X} ELSE {})
                     \cup (IF udiv THEN {K(CeilDivUI(o.w, a, b))} ELSE {})
          [] o.name = "ceildivsi" ->
                 byZero \cup overflow \cup (IF one THEN {X} ELSE {})
                     \cup (IF sdiv THEN {K(CeilDivSI(o.w, a, b))} ELSE {})
          [] o.name = "floordivsi" ->
                 byZero \cup overflow \cup (IF one THEN {X} ELSE {})
                     \cup (IF sdiv THEN {K(FloorDivSI(o.w, a, b))} ELSE {})
          [] o.name = "remui" ->
                 byZero \cup (IF one THEN {K(0)} ELSE {})
                     \cup (IF udiv THEN {K(RemUI(o.w, a, b))} ELSE {})
          [] o.name = "remsi" ->
                 byZero \cup (IF one THEN {K(0)} ELSE {})
                     \cup (IF udiv THEN {K(RemSI(o.w, a, b))} ELSE {})
          [] o.name = "andi" ->
                 (IF zero THEN {Y} ELSE {})
                     \cup (IF ones THEN {X} ELSE {})
                     \cup (IF o.name \in Idempotent /\ self THEN {X} ELSE {})
                     \cup (IF both THEN {K(AndI(o.w, a, b))} ELSE {})
          [] o.name = "ori" ->
                 (IF zero THEN {X} ELSE {})
                     \cup (IF ones THEN {Y} ELSE {})
                     \cup (IF o.name \in Idempotent /\ self THEN {X} ELSE {})
                     \cup (IF both THEN {K(OrI(o.w, a, b))} ELSE {})
          [] o.name = "xori" ->
                 (IF zero THEN {X} ELSE {})
                     \cup (IF self THEN {K(0)} ELSE {})
                     \cup (IF both THEN {K(XOrI(o.w, a, b))} ELSE {})
          [] o.name = "shli" ->
                 poison \cup (IF zero THEN {X} ELSE {})
                     \cup (IF shift THEN {K(ShLI(o.w, a, b))} ELSE {})
          [] o.name = "shrui" ->
                 poison \cup (IF zero THEN {X} ELSE {})
                     \cup (IF shift THEN {K(ShRUI(o.w, a, b))} ELSE {})
          [] o.name = "shrsi" ->
                 poison \cup (IF zero THEN {X} ELSE {})
                     \cup (IF shift THEN {K(ShRSI(o.w, a, b))} ELSE {})
          [] o.name = "maxsi" ->
                 (IF self THEN {X} ELSE {})
                     \cup (IF both THEN {K(MaxSI(o.w, a, b))} ELSE {})
          [] o.name = "maxui" ->
                 (IF self THEN {X} ELSE {})
                     \cup (IF both THEN {K(MaxUI(o.w, a, b))} ELSE {})
          [] o.name = "minsi" ->
                 (IF self THEN {X} ELSE {})
                     \cup (IF both THEN {K(MinSI(o.w, a, b))} ELSE {})
          [] o.name = "minui" ->
                 (IF self THEN {X} ELSE {})
                     \cup (IF both THEN {K(MinUI(o.w, a, b))} ELSE {})
          [] o.name = "extui" ->
                 IF m_Constant(o.args[1]) THEN {K(ExtUI(o.w, o.dw, o.args[1].v))}
                 ELSE {}
          [] o.name = "extsi" ->
                 IF m_Constant(o.args[1]) THEN {K(ExtSI(o.w, o.dw, o.args[1].v))}
                 ELSE {}
          [] o.name = "trunci" ->
                 IF m_Constant(o.args[1]) THEN {K(TruncI(o.w, o.dw, o.args[1].v))}
                 ELSE {}
          [] o.name = "cmpi" ->
                 (IF self THEN {K(CmpI(o.w, o.pred, 0, 0))} ELSE {})
                     \cup (IF both THEN {K(CmpI(o.w, o.pred, a, b))} ELSE {})
          [] o.name = "select" ->
                 (IF o.args[2] = o.args[3] /\ (o.args[2].const => o.alias)
                  THEN {<<Existing(2)>>} ELSE {})
                     \cup (IF m_Constant(o.args[1]) /\ Select(o.args[1].v, 2, 3) = 2
                           THEN {<<Existing(2)>>} ELSE {})
                     \cup (IF m_Constant(o.args[1]) /\ Select(o.args[1].v, 2, 3) = 3
                           THEN {<<Existing(3)>>} ELSE {})
          [] OTHER -> {}

(***************************************************************************)
(* Speculatability of the division ops: speculatable when the rhs is a     *)
(* known constant with which the op has semantics whatever the lhs.        *)
(***************************************************************************)
getSpeculatability(o) ==
    LET Defined(a, b) ==
            IF o.name \in {"divsi", "ceildivsi"}
            THEN DivSIDefined(o.w, a, b)
            ELSE DivUIDefined(o.w, a, b)
    IN  IF m_Constant(rhs(o))
           /\ \A a \in Patterns(o.w) : Defined(a, rhs(o).v)
        THEN "Speculatable"
        ELSE "NotSpeculatable"

(***************************************************************************)
(* Assembly.  The text of an op is a sequence of tokens: the mnemonic,     *)
(* keywords and punctuation, the names of SSA values, integer literals     *)
(* and types.                                                              *)
(***************************************************************************)
Kw(t) == [kind |-> "keyword", text |-> t, n |-> 0]

Ty(w) == [kind |-> "type", text |-> "i", n |-> w]

IntLit(n) == [kind |-> "integer", text |-> "", n |-> n]

\* the position of the later operand of the pair that may be one SSA value
SecondOfPair(o) == IF o.name = "select" THEN 3 ELSE 2

\* the name of operand i: an SSA value has one name, and two constant ops of
\* one bit pattern have two
Ssa(o, i) ==
    LET a == o.args[i]
        second == /\ Len(o.args) >= 2
                  /\ i = SecondOfPair(o)
                  /\ a.const
                  /\ a = o.args[i - 1]
                  /\ ~o.alias
    IN  [kind |-> "ssa",
         text |-> IF ~a.const THEN "v" ELSE IF second THEN "d" ELSE "c",
         n |-> a.v]

\* the SSA value a name stands for
Resolve(tok) == [const |-> tok.text \in {"c", "d"}, v |-> tok.n]

\* the keyword of a predicate
stringifyCmpIPredicate(p) == PredicateName(p)

NoPredicate == -1

\* the predicate of a keyword, matched as written
symbolizeCmpIPredicate(text) ==
    IF \E p \in CmpIPredicates : PredicateName(p) = text
    THEN getPredicateByName(text)
    ELSE NoPredicate

print(o) ==
    CASE o.name = "constant" ->
             <<Kw(o.name), IntLit(Signed(o.w, o.args[1].v)), Kw(":"), Ty(o.w)>>
      [] o.name \in IntBinaryOps ->
             <<Kw(o.name), Ssa(o, 1), Kw(","), Ssa(o, 2), Kw(":"),
               Ty(ResultWidth(o, 1))>>
      [] o.name = "addui_extended" ->
             <<Kw(o.name), Ssa(o, 1), Kw(","), Ssa(o, 2), Kw(":"),
               Ty(ResultWidth(o, 1)), Kw(","), Ty(ResultWidth(o, 2))>>
      [] o.name \in {"mulsi_extended", "mului_extended"} ->
             <<Kw(o.name), Ssa(o, 1), Kw(","), Ssa(o, 2), Kw(":"), Ty(o.w)>>
      [] o.name \in IToICastOps ->
             <<Kw(o.name), Ssa(o, 1), Kw(":"), Ty(o.w), Kw("to"), Ty(o.dw)>>
      [] o.name = "cmpi" ->
             <<Kw(o.name), Kw(stringifyCmpIPredicate(o.pred)), Kw(","),
               Ssa(o, 1), Kw(","), Ssa(o, 2), Kw(":"), Ty(o.w)>>
      [] o.name = "select" ->
             <<Kw(o.name), Ssa(o, 1), Kw(","), Ssa(o, 2), Kw(","), Ssa(o, 3),
               Kw(":"), Ty(o.w)>>

ParseError == Op("error", 0, 0, 0, <<>>, FALSE)

\* the tokens are of the given kinds, in order
Shaped(toks, kinds) ==
    /\ Len(toks) = Len(kinds)
    /\ \A i \in 1..Len(kinds) :
           IF kinds[i] \in {"ssa", "type", "integer"}
           THEN toks[i].kind = kinds[i]
           ELSE toks[i] = Kw(kinds[i])

\* the two names of the pair are one name of a constant
OneValue(t1, t2) == t1 = t2 /\ t1.text = "c"

parse(toks) ==
    LET name == toks[1].text
    IN  IF Len(toks) = 0 \/ toks[1].kind # "keyword" THEN ParseError
        ELSE CASE name = "constant" ->
                 IF /\ Shaped(toks, <<name, "integer", ":", "type">>)
                    /\ -Pow2(toks[4].n - 1) <= toks[2].n
                    /\ toks[2].n < Pow2(toks[4].n)
                 THEN Op(name, toks[4].n, toks[4].n, 0,
                         <<ConstOperand(Wrap(toks[4].n, toks[2].n))>>, FALSE)
                 ELSE ParseError
          [] name \in IntBinaryOps \cup {"mulsi_extended", "mului_extended"} ->
                 IF Shaped(toks, <<name, "ssa", ",", "ssa", ":", "type">>)
                 THEN Op(name, toks[6].n, toks[6].n, 0,
                         <<Resolve(toks[2]), Resolve(toks[4])>>,
                         OneValue(toks[2], toks[4]))
                 ELSE ParseError
          [] name = "addui_extended" ->
                 IF /\ Shaped(toks, <<name, "ssa", ",", "ssa", ":", "type",
                                      ",", "type">>)
                    /\ toks[8].n = 1
                 THEN Op(name, toks[6].n, toks[6].n, 0,
                         <<Resolve(toks[2]), Resolve(toks[4])>>,
                         OneValue(toks[2], toks[4]))
                 ELSE ParseError
          [] name \in IToICastOps ->
                 IF Shaped(toks, <<name, "ssa", ":", "type", "to", "type">>)
                 THEN Op(name, toks[4].n, toks[6].n, 0,
                         <<Resolve(toks[2])>>, FALSE)
                 ELSE ParseError
          [] name = "cmpi" ->
                 IF /\ Len(toks) = 8
                    /\ toks[2].kind = "keyword"
                    /\ symbolizeCmpIPredicate(toks[2].text) # NoPredicate
                    /\ Shaped(toks, <<name, toks[2].text, ",", "ssa", ",",
                                      "ssa", ":", "type">>)
                 THEN Op(name, toks[8].n, toks[8].n,
                         symbolizeCmpIPredicate(toks[2].text),
                         <<Resolve(toks[4]), Resolve(toks[6])>>,
                         OneValue(toks[4], toks[6]))
                 ELSE ParseError
          [] name = "select" ->
                 IF Shaped(toks, <<name, "ssa", ",", "ssa", ",", "ssa", ":",
                                   "type">>)
                 THEN Op(name, toks[8].n, toks[8].n, 0,
                         <<Resolve(toks[2]), Resolve(toks[4]),
                           Resolve(toks[6])>>,
                         OneValue(toks[4], toks[6]))
                 ELSE ParseError
          [] OTHER -> ParseError

(***************************************************************************)
(* Expressions.  The canonicalizer looks through the operands of an op at  *)
(* the ops that define them: an expression is an op with its operands as  *)
(* expressions, down to constants and to values defined elsewhere.         *)
(* w is the width of the result type (of the operands, for cmpi).          *)
(***************************************************************************)
Expr(name, w, pred, v, args) ==
    [name |-> name, w |-> w, pred |-> pred, v |-> v, args |-> args]

NoExpr == Expr("none", 0, 0, 0, <<>>)

NoRewrite ==
    [pattern |-> "none", before |-> NoExpr, from |-> NoExpr, to |-> NoExpr]

(***************************************************************************)
(* The host: builds an op, verifies it on insertion, then folds it or      *)
(* queries it, and erases it.                                              *)
(***************************************************************************)
Init ==
    /\ op = NoOp
    /\ pc = "idle"
    /\ results = <<>>
    /\ speculatability = "none"
    /\ operandRanges = <<>>
    /\ resultRange = <<>>
    /\ diagnostic = "none"
    /\ assembly = <<>>
    /\ parsed = NoOp
    /\ ir = NoExpr
    /\ rewrite = NoRewrite

Insert(o) ==
    /\ op' = o
    /\ pc' = "built"
    /\ UNCHANGED <<results, speculatability, operandRanges, resultRange,
                   diagnostic, assembly, parsed,
                   ir, rewrite>>

\* alias may be set only when the two operands can be one SSA value
Aliases(a, b) == IF a = b /\ a.const THEN BOOLEAN ELSE {FALSE}

CreateConstant ==
    /\ pc = "idle"
    /\ \E w \in Widths : \E v \in Patterns(w) :
           Insert(Op("constant", w, w, 0, <<ConstOperand(v)>>, FALSE))

CreateIntBinary ==
    /\ pc = "idle"
    /\ \E name \in IntBinaryOps : \E w \in Widths :
           \E a \in Operands(w), b \in Operands(w) : \E al \in Aliases(a, b) :
               Insert(Op(name, w, w, 0, <<a, b>>, al))

CreateExtended ==
    /\ pc = "idle"
    /\ \E name \in ExtendedOps : \E w \in Widths :
           \E a \in Operands(w), b \in Operands(w) : \E al \in Aliases(a, b) :
               Insert(Op(name, w, w, 0, <<a, b>>, al))

CreateCast ==
    /\ pc = "idle"
    /\ \E name \in IToICastOps : \E m \in Widths, n \in 1..MaxDstWidth :
           \E a \in Operands(m) :
               Insert(Op(name, m, n, 0, <<a>>, FALSE))

CreateCmpI ==
    /\ pc = "idle"
    /\ \E p \in CmpIPredicates : \E w \in Widths :
           \E a \in Operands(w), b \in Operands(w) : \E al \in Aliases(a, b) :
               Insert(Op("cmpi", w, w, p, <<a, b>>, al))

CreateSelect ==
    /\ pc = "idle"
    /\ \E w \in Widths : \E c \in Operands(1) :
           \E t \in Operands(w), f \in Operands(w) : \E al \in Aliases(t, f) :
               Insert(Op("select", w, w, 0, <<c, t, f>>, al))

Verify ==
    /\ pc = "built"
    /\ pc' = IF verify(op) THEN "verified" ELSE "rejected"
    /\ diagnostic' = emitOpError(op)
    /\ UNCHANGED <<op, results, speculatability, operandRanges, resultRange,
                   assembly, parsed,
                   ir, rewrite>>

Fold ==
    /\ pc = "verified"
    /\ op.name \in HasFolder
    /\ results' = fold(op)
    /\ pc' = "folded"
    /\ UNCHANGED <<op, speculatability, operandRanges, resultRange,
                   diagnostic, assembly, parsed,
                   ir, rewrite>>

GetSpeculatability ==
    /\ pc = "verified"
    /\ op.name \in ConditionallySpeculatableOps
    /\ speculatability' = getSpeculatability(op)
    /\ pc' = "queried"
    /\ UNCHANGED <<op, results, operandRanges, resultRange,
                   diagnostic, assembly, parsed,
                   ir, rewrite>>

\* the spellings a host may hand to the parser as a predicate
PredicateSpellings ==
    {PredicateName(p) : p \in CmpIPredicates}
        \cup {"EQ", "NE", "SLT", "SLE", "SGT", "SGE", "ULT", "ULE", "UGT",
              "UGE", "Eq", "lt"}

PrintAssembly ==
    /\ pc = "verified"
    /\ assembly' = print(op)
    /\ pc' = "printed"
    /\ UNCHANGED <<op, results, speculatability, operandRanges, resultRange,
                   diagnostic, parsed,
                   ir, rewrite>>

\* text of a cmpi that did not come out of the printer
WriteCmpI ==
    /\ pc = "idle"
    /\ \E k \in PredicateSpellings : \E w \in Widths :
           \E a \in Operands(w), b \in Operands(w) :
               assembly' = <<Kw("cmpi"), Kw(k), Kw(","),
                             Ssa(Op("cmpi", w, w, 0, <<a, b>>, FALSE), 1),
                             Kw(","),
                             Ssa(Op("cmpi", w, w, 0, <<a, b>>, FALSE), 2),
                             Kw(":"), Ty(w)>>
    /\ pc' = "printed"
    /\ UNCHANGED <<op, results, speculatability, operandRanges, resultRange,
                   diagnostic, parsed,
                   ir, rewrite>>

ParseAssembly ==
    /\ pc = "printed"
    /\ parsed' = parse(assembly)
    /\ pc' = "parsed"
    /\ UNCHANGED <<op, results, speculatability, operandRanges, resultRange,
                   diagnostic, assembly,
                   ir, rewrite>>

Erase ==
    /\ pc \in {"rejected", "folded", "queried", "parsed"}
    /\ op' = NoOp
    /\ pc' = "idle"
    /\ results' = <<>>
    /\ speculatability' = "none"
    /\ diagnostic' = "none"
    /\ assembly' = <<>>
    /\ parsed' = NoOp
    /\ UNCHANGED <<operandRanges, resultRange,
                   ir, rewrite>>

Next ==
    \/ CreateConstant
    \/ CreateIntBinary
    \/ CreateExtended
    \/ CreateCast
    \/ CreateCmpI
    \/ CreateSelect
    \/ Verify
    \/ Fold
    \/ GetSpeculatability
    \/ PrintAssembly
    \/ WriteCmpI
    \/ ParseAssembly
    \/ Erase

Spec == Init /\ [][Next]_vars

(***************************************************************************)
(* Integer range inference.  A range is a pair of intervals over one       *)
(* value: [umin, umax] on its unsigned reading and [smin, smax] on its     *)
(* signed reading.                                                         *)
(***************************************************************************)
Range(umin, umax, smin, smax) ==
    [umin |-> umin, umax |-> umax, smin |-> smin, smax |-> smax]

\* least and greatest signed value of width w
SMin(w) == -Pow2(w - 1)

SMax(w) == Pow2(w - 1) - 1

\* top: the full representable range of the width
maxRange(w) == Range(0, AllOnes(w), SMin(w), SMax(w))

constantRange(w, c) == Range(c, c, Signed(w, c), Signed(w, c))

\* an unsigned interval, with the signed interval it implies
fromUnsigned(w, lo, hi) ==
    IF MSB(w, lo) = MSB(w, hi)
    THEN Range(lo, hi, Signed(w, lo), Signed(w, hi))
    ELSE Range(lo, hi, SMin(w), SMax(w))

\* a signed interval, with the unsigned interval it implies
fromSigned(w, lo, hi) ==
    IF (lo < 0) = (hi < 0)
    THEN Range(Wrap(w, lo), Wrap(w, hi), lo, hi)
    ELSE Range(0, AllOnes(w), lo, hi)

rangeUnion(a, b) ==
    Range(IF a.umin < b.umin THEN a.umin ELSE b.umin,
          IF a.umax > b.umax THEN a.umax ELSE b.umax,
          IF a.smin < b.smin THEN a.smin ELSE b.smin,
          IF a.smax > b.smax THEN a.smax ELSE b.smax)

\* meet: componentwise max of the lower and min of the upper bounds
intersection(a, b) ==
    Range(IF a.umin > b.umin THEN a.umin ELSE b.umin,
          IF a.umax < b.umax THEN a.umax ELSE b.umax,
          IF a.smin > b.smin THEN a.smin ELSE b.smin,
          IF a.smax < b.smax THEN a.smax ELSE b.smax)

\* the value of bit pattern x lies in the range on both readings
Contains(w, r, x) ==
    /\ r.umin <= x /\ x <= r.umax
    /\ r.smin <= Signed(w, x) /\ Signed(w, x) <= r.smax

FitsUnsigned(w, n) == 0 <= n /\ n <= AllOnes(w)

FitsSigned(w, n) == SMin(w) <= n /\ n <= SMax(w)

SetMin(S) == CHOOSE x \in S : \A y \in S : x <= y

SetMax(S) == CHOOSE x \in S : \A y \in S : x >= y

\* the signed interval spanned by the given bounds, or top when one of them
\* does not fit the width
signedBoundsOrTop(w, S) ==
    IF \A n \in S : FitsSigned(w, n)
    THEN fromSigned(w, SetMin(S), SetMax(S))
    ELSE maxRange(w)

\* addi, subi, muli: bounds by exact arithmetic; top when a bound exceeds the
\* width on either reading
arithBoundsOrTop(w, ulo, uhi, S) ==
    IF /\ FitsUnsigned(w, ulo) /\ FitsUnsigned(w, uhi)
       /\ \A n \in S : FitsSigned(w, n)
    THEN Range(ulo, uhi, SetMin(S), SetMax(S))
    ELSE maxRange(w)

\* number of low bits in which the two bounds of the unsigned interval differ
differingBits(w, r) ==
    LET d == BitXor(w, r.umin, r.umax)
    IN  SetMin({k \in 0..w : d < Pow2(k)})

\* known bits: the bits above the differing ones are those of both bounds
knownZeros(w, r) ==
    (r.umin \div Pow2(differingBits(w, r))) * Pow2(differingBits(w, r))

knownOnes(w, r) == knownZeros(w, r) + Pow2(differingBits(w, r)) - 1

mayBeZero(r) == r.smin <= 0 /\ 0 <= r.smax

\* "true", "false" or "unknown": what the operand ranges prove
cmpiProves(pred, l, r) ==
    LET n == PredicateName(pred)
        disjoint == \/ l.umax < r.umin \/ r.umax < l.umin
                    \/ l.smax < r.smin \/ r.smax < l.smin
        same == \/ (l.umin = l.umax /\ r.umin = r.umax /\ l.umin = r.umin)
                \/ (l.smin = l.smax /\ r.smin = r.smax /\ l.smin = r.smin)
        decide(yes, no) == IF yes THEN "true" ELSE IF no THEN "false"
                           ELSE "unknown"
    IN  CASE n = "eq" -> decide(same, disjoint)
          [] n = "ne" -> decide(disjoint, same)
          [] n = "slt" -> decide(l.smax < r.smin, l.smin >= r.smax)
          [] n = "sle" -> decide(l.smax <= r.smin, l.smin > r.smax)
          [] n = "sgt" -> decide(l.smin > r.smax, l.smax <= r.smin)
          [] n = "sge" -> decide(l.smin >= r.smax, l.smax < r.smin)
          [] n = "ult" -> decide(l.umax < r.umin, l.umin >= r.umax)
          [] n = "ule" -> decide(l.umax <= r.umin, l.umin > r.umax)
          [] n = "ugt" -> decide(l.umin > r.umax, l.umax <= r.umin)
          [] n = "uge" -> decide(l.umin >= r.umax, l.umax < r.umin)

\* the transfer rule of each op, and the dispatch on the op's name
inferResultRanges(o, rs) ==
    LET Arith_AddIOp_inferResultRanges(w, l, r) ==
            arithBoundsOrTop(w, l.umin + r.umin, l.umax + r.umax,
                             {l.smin + r.smin, l.smax + r.smax})

        Arith_SubIOp_inferResultRanges(w, l, r) ==
            arithBoundsOrTop(w, l.umin - r.umax, l.umax - r.umin,
                             {l.smin - r.smax, l.smax - r.smin})

        Arith_MulIOp_inferResultRanges(w, l, r) ==
            arithBoundsOrTop(w, l.umin * r.umin, l.umax * r.umax,
                             {a * b : a \in {l.smin, l.smax}, b \in {r.smin, r.smax}})

        Arith_AndIOp_inferResultRanges(w, l, r) ==
            LET lo == BitAnd(w, knownZeros(w, l), knownZeros(w, r))
                hi == SetMin({BitAnd(w, knownOnes(w, l), knownOnes(w, r)),
                              l.umax, r.umax})
            IN  fromUnsigned(w, lo, hi)

        Arith_OrIOp_inferResultRanges(w, l, r) ==
            LET lo == SetMax({BitOr(w, knownZeros(w, l), knownZeros(w, r)),
                              l.umin, r.umin})
                hi == BitOr(w, knownOnes(w, l), knownOnes(w, r))
            IN  fromUnsigned(w, lo, hi)

        Arith_XOrIOp_inferResultRanges(w, l, r) ==
            LET k == SetMax({differingBits(w, l), differingBits(w, r)})
                known == BitXor(w, knownZeros(w, l), knownZeros(w, r))
                lo == (known \div Pow2(k)) * Pow2(k)
            IN  fromUnsigned(w, lo, lo + Pow2(k) - 1)

        \* multiply by the power-of-two range; top when the width is exceeded
        Arith_ShLIOp_inferResultRanges(w, l, r) ==
            IF r.umax >= w THEN maxRange(w)
            ELSE arithBoundsOrTop(w, l.umin * Pow2(r.umin), l.umax * Pow2(r.umax),
                                  {a * Pow2(sh) : a \in {l.smin, l.smax},
                                                  sh \in {r.umin, r.umax}})

        \* divide by the power-of-two range, on the unsigned reading
        Arith_ShRUIOp_inferResultRanges(w, l, r) ==
            IF r.umax >= w THEN maxRange(w)
            ELSE fromUnsigned(w, l.umin \div Pow2(r.umax), l.umax \div Pow2(r.umin))

        \* divide by the power-of-two range, on the signed reading
        Arith_ShRSIOp_inferResultRanges(w, l, r) ==
            IF r.umax >= w THEN maxRange(w)
            ELSE signedBoundsOrTop(w, {FloorDiv(a, Pow2(sh)) :
                                          a \in {l.smin, l.smax},
                                          sh \in {r.umin, r.umax}})

        \* division by zero possible: top
        Arith_DivUIOp_inferResultRanges(w, l, r) ==
            IF r.umin = 0 THEN maxRange(w)
            ELSE fromUnsigned(w, l.umin \div r.umax, l.umax \div r.umin)

        Arith_CeilDivUIOp_inferResultRanges(w, l, r) ==
            IF r.umin = 0 THEN maxRange(w)
            ELSE fromUnsigned(w, CeilDiv(l.umin, r.umax), CeilDiv(l.umax, r.umin))

        Arith_DivSIOp_inferResultRanges(w, l, r) ==
            IF mayBeZero(r) THEN maxRange(w)
            ELSE signedBoundsOrTop(w, {TruncDiv(a, b) : a \in {l.smin, l.smax},
                                                        b \in {r.smin, r.smax}})

        Arith_CeilDivSIOp_inferResultRanges(w, l, r) ==
            IF mayBeZero(r) THEN maxRange(w)
            ELSE signedBoundsOrTop(w, {CeilDiv(a, b) : a \in {l.smin, l.smax},
                                                       b \in {r.smin, r.smax}})

        Arith_FloorDivSIOp_inferResultRanges(w, l, r) ==
            IF mayBeZero(r) THEN maxRange(w)
            ELSE signedBoundsOrTop(w, {FloorDiv(a, b) : a \in {l.smin, l.smax},
                                                        b \in {r.smin, r.smax}})

        Arith_RemUIOp_inferResultRanges(w, l, r) ==
            IF r.umin = 0 THEN maxRange(w)
            ELSE fromUnsigned(w, 0, SetMin({l.umax, r.umax - 1}))

        Arith_RemSIOp_inferResultRanges(w, l, r) ==
            IF mayBeZero(r) THEN maxRange(w)
            ELSE LET maxDivisor == SetMax({Abs(r.smin), Abs(r.smax)})
                 IN  fromSigned(w,
                         IF l.smin < 0 THEN SetMax({l.smin, -(maxDivisor - 1)}) ELSE 0,
                         IF l.smax > 0 THEN SetMin({l.smax, maxDivisor - 1}) ELSE 0)

        Arith_MaxSIOp_inferResultRanges(w, l, r) ==
            fromSigned(w, SetMax({l.smin, r.smin}), SetMax({l.smax, r.smax}))

        Arith_MaxUIOp_inferResultRanges(w, l, r) ==
            fromUnsigned(w, SetMax({l.umin, r.umin}), SetMax({l.umax, r.umax}))

        Arith_MinSIOp_inferResultRanges(w, l, r) ==
            fromSigned(w, SetMin({l.smin, r.smin}), SetMin({l.smax, r.smax}))

        Arith_MinUIOp_inferResultRanges(w, l, r) ==
            fromUnsigned(w, SetMin({l.umin, r.umin}), SetMin({l.umax, r.umax}))

        \* zero-extend the unsigned interval; the signed interval is non-negative
        Arith_ExtUIOp_inferResultRanges(m, n, l) ==
            Range(ExtUI(m, n, l.umin), ExtUI(m, n, l.umax),
                  ExtUI(m, n, l.umin), ExtUI(m, n, l.umax))

        \* sign-extend both intervals
        Arith_ExtSIOp_inferResultRanges(m, n, l) ==
            Range(ExtSI(m, n, l.umin), ExtSI(m, n, l.umax), l.smin, l.smax)

        \* preserved if the input range fits the result width, else top
        Arith_TruncIOp_inferResultRanges(m, n, l) ==
            IF FitsUnsigned(n, l.umax) /\ FitsSigned(n, l.smin) /\ FitsSigned(n, l.smax)
            THEN l
            ELSE maxRange(n)

        Arith_CmpIOp_inferResultRanges(pred, l, r) ==
            CASE cmpiProves(pred, l, r) = "true" -> constantRange(1, 1)
              [] cmpiProves(pred, l, r) = "false" -> constantRange(1, 0)
              [] OTHER -> maxRange(1)

        \* union of the two branches, within the declared width
        SelectOp_inferResultRanges(w, t, f) ==
            intersection(rangeUnion(t, f), maxRange(w))

        Arith_ConstantOp_inferResultRanges(w, c) == constantRange(w, c)
    IN  CASE o.name = "constant" -> Arith_ConstantOp_inferResultRanges(o.w, o.args[1].v)
          [] o.name = "addi" -> Arith_AddIOp_inferResultRanges(o.w, rs[1], rs[2])
          [] o.name = "subi" -> Arith_SubIOp_inferResultRanges(o.w, rs[1], rs[2])
          [] o.name = "muli" -> Arith_MulIOp_inferResultRanges(o.w, rs[1], rs[2])
          [] o.name = "andi" -> Arith_AndIOp_inferResultRanges(o.w, rs[1], rs[2])
          [] o.name = "ori" -> Arith_OrIOp_inferResultRanges(o.w, rs[1], rs[2])
          [] o.name = "xori" -> Arith_XOrIOp_inferResultRanges(o.w, rs[1], rs[2])
          [] o.name = "shli" -> Arith_ShLIOp_inferResultRanges(o.w, rs[1], rs[2])
          [] o.name = "shrui" -> Arith_ShRUIOp_inferResultRanges(o.w, rs[1], rs[2])
          [] o.name = "shrsi" -> Arith_ShRSIOp_inferResultRanges(o.w, rs[1], rs[2])
          [] o.name = "divui" -> Arith_DivUIOp_inferResultRanges(o.w, rs[1], rs[2])
          [] o.name = "divsi" -> Arith_DivSIOp_inferResultRanges(o.w, rs[1], rs[2])
          [] o.name = "ceildivui" -> Arith_CeilDivUIOp_inferResultRanges(o.w, rs[1], rs[2])
          [] o.name = "ceildivsi" -> Arith_CeilDivSIOp_inferResultRanges(o.w, rs[1], rs[2])
          [] o.name = "floordivsi" -> Arith_FloorDivSIOp_inferResultRanges(o.w, rs[1], rs[2])
          [] o.name = "remui" -> Arith_RemUIOp_inferResultRanges(o.w, rs[1], rs[2])
          [] o.name = "remsi" -> Arith_RemSIOp_inferResultRanges(o.w, rs[1], rs[2])
          [] o.name = "maxsi" -> Arith_MaxSIOp_inferResultRanges(o.w, rs[1], rs[2])
          [] o.name = "maxui" -> Arith_MaxUIOp_inferResultRanges(o.w, rs[1], rs[2])
          [] o.name = "minsi" -> Arith_MinSIOp_inferResultRanges(o.w, rs[1], rs[2])
          [] o.name = "minui" -> Arith_MinUIOp_inferResultRanges(o.w, rs[1], rs[2])
          [] o.name = "extui" -> Arith_ExtUIOp_inferResultRanges(o.w, o.dw, rs[1])
          [] o.name = "extsi" -> Arith_ExtSIOp_inferResultRanges(o.w, o.dw, rs[1])
          [] o.name = "trunci" -> Arith_TruncIOp_inferResultRanges(o.w, o.dw, rs[1])
          [] o.name = "cmpi" -> Arith_CmpIOp_inferResultRanges(o.pred, rs[1], rs[2])
          [] o.name = "select" -> SelectOp_inferResultRanges(o.w, rs[2], rs[3])

(***************************************************************************)
(* What an op computes on concrete operand values, and on which values it  *)
(* has semantics.                                                          *)
(***************************************************************************)
\* a shift by the width or more has no value
ShiftDefined(w, sh) == sh < w

Defined(name, w, a, b) ==
    CASE name \in {"divui", "ceildivui", "remui", "remsi"} -> DivUIDefined(w, a, b)
      [] name \in {"divsi", "ceildivsi", "floordivsi"} -> DivSIDefined(w, a, b)
      [] name \in {"shli", "shrui", "shrsi"} -> ShiftDefined(w, b)
      [] OTHER -> TRUE

Compute(name, w, a, b) ==
    CASE name = "addi" -> AddI(w, a, b)
      [] name = "subi" -> SubI(w, a, b)
      [] name = "muli" -> MulI(w, a, b)
      [] name = "andi" -> AndI(w, a, b)
      [] name = "ori" -> OrI(w, a, b)
      [] name = "xori" -> XOrI(w, a, b)
      [] name = "shli" -> ShLI(w, a, b)
      [] name = "shrui" -> ShRUI(w, a, b)
      [] name = "shrsi" -> ShRSI(w, a, b)
      [] name = "divui" -> DivUI(w, a, b)
      [] name = "divsi" -> DivSI(w, a, b)
      [] name = "ceildivui" -> CeilDivUI(w, a, b)
      [] name = "ceildivsi" -> CeilDivSI(w, a, b)
      [] name = "floordivsi" -> FloorDivSI(w, a, b)
      [] name = "remui" -> RemUI(w, a, b)
      [] name = "remsi" -> RemSI(w, a, b)
      [] name = "maxsi" -> MaxSI(w, a, b)
      [] name = "maxui" -> MaxUI(w, a, b)
      [] name = "minsi" -> MinSI(w, a, b)
      [] name = "minui" -> MinUI(w, a, b)

ComputeCast(name, m, n, x) ==
    CASE name = "extui" -> ExtUI(m, n, x)
      [] name = "extsi" -> ExtSI(m, n, x)
      [] name = "trunci" -> TruncI(m, n, x)

(***************************************************************************)
(* The host asking for ranges: it hands an op and the ranges of its        *)
(* operands to the range inference and caches the answer.                  *)
(***************************************************************************)
RangeWidths == 1..MaxRangeWidth

\* the ranges the host hands in: top, and every unsigned or signed interval
\* with the interval it implies on the other reading
OperandRanges(w) ==
    {fromUnsigned(w, lo, hi) : lo \in Patterns(w), hi \in Patterns(w)}
        \cup {fromSigned(w, lo, hi) : lo \in SMin(w)..SMax(w),
                                      hi \in SMin(w)..SMax(w)}

ValidRanges(w) == {r \in OperandRanges(w) : r.umin <= r.umax /\ r.smin <= r.smax}

Ask(o, rs) ==
    /\ op' = o
    /\ operandRanges' = rs
    /\ pc' = "asked"
    /\ UNCHANGED <<results, speculatability, resultRange,
                   diagnostic, assembly, parsed,
                   ir, rewrite>>

AskConstant ==
    /\ pc = "idle"
    /\ \E w \in RangeWidths : \E v \in Patterns(w) :
           Ask(Op("constant", w, w, 0, <<ConstOperand(v)>>, FALSE), <<>>)

AskIntBinary ==
    /\ pc = "idle"
    /\ \E name \in IntBinaryOps : \E w \in RangeWidths :
           \E l \in ValidRanges(w), r \in ValidRanges(w) :
               Ask(Op(name, w, w, 0, <<>>, FALSE), <<l, r>>)

AskExt ==
    /\ pc = "idle"
    /\ \E name \in {"extui", "extsi"} : \E m \in RangeWidths :
           \E n \in (m + 1)..(MaxRangeWidth + 1) : \E l \in ValidRanges(m) :
               Ask(Op(name, m, n, 0, <<>>, FALSE), <<l>>)

AskTruncI ==
    /\ pc = "idle"
    /\ \E m \in 2..(MaxRangeWidth + 1) : \E n \in 1..(m - 1) :
           \E l \in ValidRanges(m) :
               Ask(Op("trunci", m, n, 0, <<>>, FALSE), <<l>>)

AskCmpI ==
    /\ pc = "idle"
    /\ \E p \in CmpIPredicates : \E w \in RangeWidths :
           \E l \in ValidRanges(w), r \in ValidRanges(w) :
               Ask(Op("cmpi", w, w, p, <<>>, FALSE), <<l, r>>)

AskSelect ==
    /\ pc = "idle"
    /\ \E w \in RangeWidths : \E c \in ValidRanges(1) :
           \E t \in ValidRanges(w), f \in ValidRanges(w) :
               Ask(Op("select", w, w, 0, <<>>, FALSE), <<c, t, f>>)

InferResultRanges ==
    /\ pc = "asked"
    /\ resultRange' = inferResultRanges(op, operandRanges)
    /\ pc' = "inferred"
    /\ UNCHANGED <<op, results, speculatability, operandRanges,
                   diagnostic, assembly, parsed,
                   ir, rewrite>>

Forget ==
    /\ pc = "inferred"
    /\ op' = NoOp
    /\ operandRanges' = <<>>
    /\ resultRange' = <<>>
    /\ pc' = "idle"
    /\ UNCHANGED <<results, speculatability, diagnostic, assembly, parsed,
                   ir, rewrite>>

NextRange ==
    \/ AskConstant
    \/ AskIntBinary
    \/ AskExt
    \/ AskTruncI
    \/ AskCmpI
    \/ AskSelect
    \/ InferResultRanges
    \/ Forget

SpecRange == Init /\ [][NextRange]_vars

(***************************************************************************)
(* Canonicalizer.  Local rewrite patterns, each matching an op and the ops *)
(* that define its operands, and a driver that applies one pattern at a    *)
(* time anywhere in an expression until none matches.                      *)
(***************************************************************************)
HasCanonicalizer ==
    {"addi", "addui_extended", "subi", "mulsi_extended", "mului_extended",
     "andi", "ori", "xori", "mulf", "divf", "extsi", "trunci", "index_cast",
     "index_castui", "bitcast", "cmpi", "cmpf", "select"}

ConstantExpr(w, v) == Expr("constant", w, 0, v, <<>>)

ValueExpr(w, id) == Expr("value", w, 0, id, <<>>)

BinaryExpr(name, l, r) == Expr(name, l.w, 0, 0, <<l, r>>)

CmpIExpr(p, l, r) == Expr("cmpi", l.w, p, 0, <<l, r>>)

CastExpr(name, n, x) == Expr(name, n, 0, 0, <<x>>)

m_ConstantExpr(e) == e.name = "constant"

\* a constant on the lhs of an op whose rhs is not a constant
m_ConstantOnLhsOnlyMutAnyRhs(e) == m_ConstantExpr(e.args[1])
m_ConstantOnLhsOnly(e) ==
    m_ConstantExpr(e.args[1]) /\ ~m_ConstantExpr(e.args[2])

\* the exponents k < w with c = 2^k
Log2(w, c) == {k \in 0..(w - 1) : Pow2(k) = c}

\* the patterns that match at the root of e, each with its replacement
getCanonicalizationPatterns(e) ==
    LET l == e.args[1]
        r == e.args[2]
        Rewritten(p, to) == [pattern |-> p, to |-> to]
        \* addi(x, c) with c negative -> subi(x, -c)
        AddINegConstant ==
            IF e.name = "addi" /\ m_ConstantExpr(r) /\ Signed(e.w, r.v) < 0
            THEN {Rewritten("AddINegConstant",
                      BinaryExpr("subi", l,
                                 ConstantExpr(e.w, Wrap(e.w, -Signed(e.w, r.v)))))}
            ELSE {}
        \* commutative op(c, x) -> op(x, c)
        ConstantToRhs ==
            IF e.name \in Commutative /\ Len(e.args) = 2
                  /\ m_ConstantOnLhsOnly(e)
            THEN {Rewritten("ConstantToRhs", BinaryExpr(e.name, r, l))}
            ELSE {}
        \* subi(c1, addi(x, c2)) -> subi(c1 - c2, x)
        SubILHSAddConstant ==
            IF e.name = "subi" /\ m_ConstantExpr(l) /\ r.name = "addi"
                  /\ m_ConstantExpr(r.args[2])
            THEN {Rewritten("SubILHSAddConstant",
                      BinaryExpr("subi",
                                 ConstantExpr(e.w, SubI(e.w, l.v, r.args[2].v)),
                                 r.args[1]))}
            ELSE {}
        \* muli(x, 2^k) -> shli(x, k)
        MulIPow2ToShLI ==
            IF e.name = "muli" /\ m_ConstantExpr(r)
            THEN {Rewritten("MulIPow2ToShLI",
                      BinaryExpr("shli", l, ConstantExpr(e.w, k)))
                    : k \in Log2(e.w, r.v)}
            ELSE {}
        \* xori(xori(x, -1), -1) -> x
        XOrINotNot ==
            IF e.name = "xori" /\ m_ConstantExpr(r) /\ r.v = AllOnes(e.w)
                  /\ l.name = "xori" /\ m_ConstantExpr(l.args[2])
                  /\ l.args[2].v = AllOnes(e.w)
            THEN {Rewritten("XOrINotNot", l.args[1])}
            ELSE {}
        \* cmpi sle x, c -> cmpi slt x, c + 1 unless c + 1 overflows
        CmpISleToSlt ==
            IF e.name = "cmpi" /\ PredicateName(e.pred) = "sle"
                  /\ m_ConstantExpr(r) /\ r.v # SignedMax(e.w)
            THEN {Rewritten("CmpISleToSlt",
                      CmpIExpr(getPredicateByName("slt"), l,
                               ConstantExpr(e.w, Wrap(e.w, r.v + 1))))}
            ELSE {}
        \* extsi(extsi(x)) -> extsi(x)
        ExtSIOfExtSI ==
            IF e.name = "extsi" /\ l.name = "extsi"
            THEN {Rewritten("ExtSIOfExtSI", CastExpr("extsi", e.w, l.args[1]))}
            ELSE {}
        \* trunci(extsi(x)) back to the type of x -> x
        TruncIOfExtSI ==
            IF e.name = "trunci" /\ l.name = "extsi" /\ l.args[1].w = e.w
            THEN {Rewritten("TruncIOfExtSI", l.args[1])}
            ELSE {}
    IN  AddINegConstant \cup ConstantToRhs \cup SubILHSAddConstant
            \cup MulIPow2ToShLI \cup XOrINotNot \cup CmpISleToSlt
            \cup ExtSIOfExtSI \cup TruncIOfExtSI

\* the rewrites of e by one pattern at one op of e: the pattern, the op it
\* matched, its replacement, and e with the op replaced
RECURSIVE applyPatterns(_)
applyPatterns(e) ==
    {[pattern |-> p.pattern, from |-> e, to |-> p.to, ir |-> p.to]
         : p \in getCanonicalizationPatterns(e)}
        \cup UNION {{[pattern |-> s.pattern, from |-> s.from, to |-> s.to,
                      ir |-> [e EXCEPT !.args[i] = s.ir]]
                         : s \in applyPatterns(e.args[i])}
                        : i \in 1..Len(e.args)}

\* widths 1..MaxCanonWidth of the integer types expressions are built on
CanonWidths == 1..MaxCanonWidth

Leaves(w) ==
    {ConstantExpr(w, v) : v \in Patterns(w)}
        \cup {ValueExpr(w, id) : id \in 0..(NumValues - 1)}

\* the integer ops the patterns are about
PatternOps == {"addi", "subi", "muli", "xori", "shli"}

\* an op on leaves
Simple(w) ==
    {BinaryExpr(name, l, r) : name \in PatternOps, l \in Leaves(w),
                              r \in Leaves(w)}

hostVars ==
    <<op, results, speculatability, operandRanges, resultRange, diagnostic,
      assembly, parsed>>

Build(e) ==
    /\ ir' = e
    /\ rewrite' = NoRewrite
    /\ pc' = "canonicalizing"
    /\ UNCHANGED hostVars

\* an op on leaves, or an op on such an op and a leaf
CreateArithExpression ==
    /\ pc = "idle"
    /\ \E w \in CanonWidths :
           \/ \E e \in Simple(w) : Build(e)
           \/ \E name \in PatternOps : \E x \in Simple(w), y \in Leaves(w) :
                  \/ Build(BinaryExpr(name, x, y))
                  \/ Build(BinaryExpr(name, y, x))

CreateCmpIExpression ==
    /\ pc = "idle"
    /\ \E w \in CanonWidths : \E p \in CmpIPredicates :
           \E l \in Leaves(w), r \in Leaves(w) : Build(CmpIExpr(p, l, r))

\* a cast of a cast of a leaf
CreateCastExpression ==
    /\ pc = "idle"
    /\ \E w \in CanonWidths : \E x \in Leaves(w) :
           \E m \in (w + 1)..(MaxCanonWidth + 1) :
               \/ \E n \in (m + 1)..(MaxCanonWidth + 2) :
                      Build(CastExpr("extsi", n, CastExpr("extsi", m, x)))
               \/ \E n \in 1..(m - 1) :
                      Build(CastExpr("trunci", n, CastExpr("extsi", m, x)))

\* the driver applies one pattern at one op of the expression
Apply(p) ==
    /\ \E s \in applyPatterns(ir) :
           /\ s.pattern = p
           /\ ir' = s.ir
           /\ rewrite' = [pattern |-> p, before |-> ir, from |-> s.from,
                          to |-> s.to]
    /\ UNCHANGED pc
    /\ UNCHANGED hostVars

RewriteAddINegConstant ==
    /\ pc = "canonicalizing"
    /\ Apply("AddINegConstant")

RewriteConstantToRhs ==
    /\ pc = "canonicalizing"
    /\ Apply("ConstantToRhs")

RewriteSubILHSAddConstant ==
    /\ pc = "canonicalizing"
    /\ Apply("SubILHSAddConstant")

RewriteMulIPow2ToShLI ==
    /\ pc = "canonicalizing"
    /\ Apply("MulIPow2ToShLI")

RewriteXOrINotNot ==
    /\ pc = "canonicalizing"
    /\ Apply("XOrINotNot")

RewriteCmpISleToSlt ==
    /\ pc = "canonicalizing"
    /\ Apply("CmpISleToSlt")

RewriteExtSIOfExtSI ==
    /\ pc = "canonicalizing"
    /\ Apply("ExtSIOfExtSI")

RewriteTruncIOfExtSI ==
    /\ pc = "canonicalizing"
    /\ Apply("TruncIOfExtSI")

EraseExpression ==
    /\ pc = "canonicalizing"
    /\ ir' = NoExpr
    /\ rewrite' = NoRewrite
    /\ pc' = "idle"
    /\ UNCHANGED hostVars

NextCanon ==
    \/ CreateArithExpression
    \/ CreateCmpIExpression
    \/ CreateCastExpression
    \/ RewriteAddINegConstant
    \/ RewriteConstantToRhs
    \/ RewriteSubILHSAddConstant
    \/ RewriteMulIPow2ToShLI
    \/ RewriteXOrINotNot
    \/ RewriteCmpISleToSlt
    \/ RewriteExtSIOfExtSI
    \/ RewriteTruncIOfExtSI
    \/ EraseExpression

SpecCanon == Init /\ [][NextCanon]_vars

(***************************************************************************)
(* Reading a fold result.                                                  *)
(***************************************************************************)
\* the result is a constant: an attribute, or an operand that is one
IsConstantResult(o, r) == r.tag = "attr" \/ o.args[r.v].const

\* the bit pattern of a constant result
ConstantOf(o, r) == IF r.tag = "attr" THEN r.v ELSE o.args[r.v].v

\* the width of the type of a result
WidthOf(o, r) == IF r.tag = "attr" THEN r.w ELSE o.w

\* r is the N-bit constant of bit pattern v
IsConstant(o, r, n, v) ==
    IsConstantResult(o, r) /\ WidthOf(o, r) = n /\ ConstantOf(o, r) = v

Folded(name) == pc = "folded" /\ op.name = name

BinaryOn(name, w, a, b) ==
    Op(name, w, w, 0, <<ConstOperand(a), ConstOperand(b)>>, FALSE)

(***************************************************************************)
(* C1: range soundness.  For every integer op with a range transfer        *)
(* function and all concrete operand values lying inside their operand     *)
(* ranges (on both readings), the concrete result of the op lies inside    *)
(* the inferred result range (on both readings).                           *)
(***************************************************************************)
\* the values a range stands for
Concretization(w, r) == {x \in Patterns(w) : Contains(w, r, x)}

C1_RangeSoundness ==
    pc = "inferred" =>
        CASE op.name = "constant" ->
                 Contains(op.w, resultRange, op.args[1].v)
          [] op.name \in IntBinaryOps ->
                 \A a \in Concretization(op.w, operandRanges[1]) :
                     \A b \in Concretization(op.w, operandRanges[2]) :
                         Defined(op.name, op.w, a, b) =>
                             Contains(op.w, resultRange,
                                      Compute(op.name, op.w, a, b))
          [] op.name \in IToICastOps ->
                 \A a \in Concretization(op.w, operandRanges[1]) :
                     Contains(op.dw, resultRange,
                              ComputeCast(op.name, op.w, op.dw, a))
          [] op.name = "cmpi" ->
                 \A a \in Concretization(op.w, operandRanges[1]) :
                     \A b \in Concretization(op.w, operandRanges[2]) :
                         Contains(1, resultRange, CmpI(op.w, op.pred, a, b))
          [] op.name = "select" ->
                 \A c \in Concretization(1, operandRanges[1]) :
                     \A t \in Concretization(op.w, operandRanges[2]) :
                         \A f \in Concretization(op.w, operandRanges[3]) :
                             Contains(op.w, resultRange, Select(c, t, f))

\* a range narrower than top was inferred for a subi whose operands each
\* range over several values
C1_Witness ==
    /\ pc = "inferred"
    /\ op.name = "subi"
    /\ Cardinality(Concretization(op.w, operandRanges[1])) > 1
    /\ Cardinality(Concretization(op.w, operandRanges[2])) > 1
    /\ resultRange # maxRange(op.w)

(***************************************************************************)
(* C2: folding addi on two N-bit constants c1, c2 gives the N-bit constant *)
(* congruent to c1 + c2 modulo 2^N, whether the operands are read as       *)
(* unsigned or as signed.                                                  *)
(***************************************************************************)
C2_AddIFoldTwosComplement ==
    (Folded("addi") /\ BothConstant(op)) =>
        /\ Len(results) = 1
        /\ IsConstantResult(op, results[1])
        /\ WidthOf(op, results[1]) = op.w
        /\ LET r == ConstantOf(op, results[1])
               c1 == lhs(op).v
               c2 == rhs(op).v
               N == op.w
           IN  /\ r \in Patterns(N)
               /\ (c1 + c2 - r) % Pow2(N) = 0
               /\ (Signed(N, c1) + Signed(N, c2) - Signed(N, r)) % Pow2(N) = 0

\* an addi of two constants whose unsigned sum does not fit was folded
C2_Witness ==
    /\ Folded("addi")
    /\ BothConstant(op)
    /\ lhs(op).v + rhs(op).v >= Pow2(op.w)
    /\ Len(results) = 1
    /\ results[1].tag = "attr"

(***************************************************************************)
(* C3: folding a division or remainder whose rhs is the constant 0 gives   *)
(* no change, and folding divsi, ceildivsi or floordivsi of the minimum    *)
(* signed value by -1 gives no change.                                     *)
(***************************************************************************)
DivRemOps ==
    {"divui", "divsi", "ceildivui", "ceildivsi", "floordivsi", "remui",
     "remsi"}

SignedDivOps == {"divsi", "ceildivsi", "floordivsi"}

C4_Speculatability ==
    pc = "queried" =>
        speculatability =
            IF /\ rhs(op).const
               /\ rhs(op).v # 0
               /\ (op.name \in {"divsi", "ceildivsi"}
                       => rhs(op).v # AllOnes(op.w))
            THEN "Speculatable"
            ELSE "NotSpeculatable"

\* a signed division by the constant -1, of more than one bit, was queried
C4_Witness ==
    /\ pc = "queried"
    /\ op.name = "divsi"
    /\ op.w > 1
    /\ m_AllOnes(op.w, rhs(op))
    /\ speculatability = "NotSpeculatable"

(***************************************************************************)
(* C5: folding addui_extended on N-bit constants a, b gives the N-bit sum  *)
(* (a + b) mod 2^N and the i1 overflow constant, 1 exactly when            *)
(* a + b >= 2^N; 255:i8 and 1:i8 fold to (0:i8, 1:i1).                     *)
(***************************************************************************)
C5_AddUIExtendedFold ==
    /\ (Folded("addui_extended") /\ BothConstant(op)) =>
           /\ Len(results) = 2
           /\ IsConstant(op, results[1], op.w,
                         (lhs(op).v + rhs(op).v) % Pow2(op.w))
           /\ results[2] =
                  Attr(1, IF lhs(op).v + rhs(op).v >= Pow2(op.w) THEN 1 ELSE 0)
    /\ fold(BinaryOn("addui_extended", 8, 255, 1)) = <<Attr(8, 0), Attr(1, 1)>>

\* an overflowing addui_extended of two constants was folded
C5_Witness ==
    /\ Folded("addui_extended")
    /\ BothConstant(op)
    /\ lhs(op).v + rhs(op).v >= Pow2(op.w)
    /\ Len(results) = 2
    /\ results[2] = Attr(1, 1)

(***************************************************************************)
(* C6: on N-bit constants the low result of mulsi_extended and of          *)
(* mului_extended is what muli folds to, and high:low is the 2N-bit        *)
(* product of the signed (mulsi_extended) or unsigned (mului_extended)     *)
(* operand values; both results have the operands' type.                   *)
(***************************************************************************)
C6_MulExtendedFold ==
    (/\ pc = "folded"
     /\ op.name \in {"mulsi_extended", "mului_extended"}
     /\ BothConstant(op)) =>
        /\ Len(results) = 2
        /\ \A i \in 1..2 :
               IsConstantResult(op, results[i]) /\ WidthOf(op, results[i]) = op.w
        /\ LET N == op.w
               a == lhs(op).v
               b == rhs(op).v
               low == ConstantOf(op, results[1])
               high == ConstantOf(op, results[2])
               muli == [op EXCEPT !.name = "muli"]
           IN  /\ low \in Patterns(N) /\ high \in Patterns(N)
               /\ low = ConstantOf(muli, fold(muli)[1])
               /\ low = (a * b) % Pow2(N)
               /\ op.name = "mulsi_extended" =>
                      Signed(2 * N, high * Pow2(N) + low)
                          = Signed(N, a) * Signed(N, b)
               /\ op.name = "mului_extended" => high * Pow2(N) + low = a * b

\* a mulsi_extended of two negative constants was folded
C6_Witness ==
    /\ Folded("mulsi_extended")
    /\ BothConstant(op)
    /\ op.w > 1
    /\ MSB(op.w, lhs(op).v) = 1
    /\ MSB(op.w, rhs(op).v) = 1
    /\ Len(results) = 2
    /\ results[2].tag = "attr"

(***************************************************************************)
(* C7: folding cmpi on two constants gives the i1 constant 1 exactly when  *)
(* the predicate holds: slt/sle/sgt/sge on the two's complement values,    *)
(* ult/ule/ugt/uge on the unsigned values, eq/ne on the bit patterns;      *)
(* (-1, 0) folds to 1 under slt and to 0 under ult.                        *)
(***************************************************************************)
\* signed order by the offset-binary trick: flip the sign bit, compare unsigned
Biased(w, x) == (x + Pow2(w - 1)) % Pow2(w)

PredicateHolds(w, p, a, b) ==
    CASE p = 0 -> a = b
      [] p = 1 -> ~(a = b)
      [] p = 2 -> Biased(w, a) < Biased(w, b)
      [] p = 3 -> ~(Biased(w, b) < Biased(w, a))
      [] p = 4 -> Biased(w, b) < Biased(w, a)
      [] p = 5 -> ~(Biased(w, a) < Biased(w, b))
      [] p = 6 -> a < b
      [] p = 7 -> ~(b < a)
      [] p = 8 -> b < a
      [] p = 9 -> ~(a < b)

CmpIOn(name, w, a, b) ==
    Op("cmpi", w, w, getPredicateByName(name),
       <<ConstOperand(a), ConstOperand(b)>>, FALSE)

C7_CmpIFold ==
    /\ (Folded("cmpi") /\ BothConstant(op)) =>
           results =
               <<Attr(1, IF PredicateHolds(op.w, op.pred, lhs(op).v, rhs(op).v)
                         THEN 1 ELSE 0)>>
    /\ fold(CmpIOn("slt", 16, AllOnes(16), 0)) = <<Attr(1, 1)>>
    /\ fold(CmpIOn("ult", 16, AllOnes(16), 0)) = <<Attr(1, 0)>>

\* cmpi slt of the constants -1 and 0 was folded to 1
C7_Witness ==
    /\ Folded("cmpi")
    /\ op.pred = 2
    /\ op.w > 1
    /\ lhs(op) = ConstOperand(AllOnes(op.w))
    /\ rhs(op) = ConstOperand(0)
    /\ results = <<Attr(1, 1)>>

(***************************************************************************)
(* C8: folding extsi from width M to N > M on an M-bit constant c gives    *)
(* the N-bit constant whose low M bits are c and whose top N - M bits are  *)
(* copies of c's most significant bit, so the signed value is kept;        *)
(* 5:i3 folds to -3:i6 (unsigned 61).                                      *)
(***************************************************************************)
C8_ExtSIFold ==
    (Folded("extsi") /\ m_Constant(op.args[1])) =>
        LET M == op.w
            N == op.dw
            c == op.args[1].v
        IN  /\ N > M
            /\ Len(results) = 1
            /\ results[1].tag = "attr"
            /\ results[1].w = N
            /\ LET r == results[1].v
               IN  /\ r \in Patterns(N)
                   /\ r % Pow2(M) = c
                   /\ \A i \in M..(N - 1) : Bit(r, i) = Bit(c, M - 1)
                   /\ Signed(N, r) = Signed(M, c)
                   /\ (M = 3 /\ N = 6 /\ c = 5) => (r = 61 /\ Signed(N, r) = -3)

\* extsi of the constant 5 : i3 to i6 was folded
C8_Witness ==
    /\ Folded("extsi")
    /\ op.w = 3
    /\ op.dw = 6
    /\ op.args[1] = ConstOperand(5)
    /\ results = <<Attr(6, 61)>>

(***************************************************************************)
(* C9: folding extui from width M to N > M on an M-bit constant c gives    *)
(* the N-bit constant whose low M bits are c and whose top N - M bits are  *)
(* zero, so the unsigned value is kept; 5:i3 folds to 5:i6.                *)
(***************************************************************************)
C9_ExtUIFold ==
    (Folded("extui") /\ m_Constant(op.args[1])) =>
        LET M == op.w
            N == op.dw
            c == op.args[1].v
        IN  /\ N > M
            /\ Len(results) = 1
            /\ results[1].tag = "attr"
            /\ results[1].w = N
            /\ LET r == results[1].v
               IN  /\ r \in Patterns(N)
                   /\ r % Pow2(M) = c
                   /\ \A i \in M..(N - 1) : Bit(r, i) = 0
                   /\ r = c
                   /\ (M = 3 /\ N = 6 /\ c = 5) => r = 5

\* extui of the constant 5 : i3 (sign bit set) to i6 was folded
C9_Witness ==
    /\ Folded("extui")
    /\ op.w = 3
    /\ op.dw = 6
    /\ op.args[1] = ConstOperand(5)
    /\ results = <<Attr(6, 5)>>

(***************************************************************************)
(* C10: folding shrsi on an N-bit constant x and a constant shift s with   *)
(* 0 <= s < N gives the N-bit constant of x shifted right by s with the s  *)
(* high bits copies of x's most significant bit: the floor of the signed   *)
(* value over 2^s; 160:i8 by 3 folds to -12 (244), 96:i8 by 3 to 12.       *)
(***************************************************************************)
C10_ShRSIFold ==
    /\ (Folded("shrsi") /\ BothConstant(op) /\ rhs(op).v < op.w) =>
           LET N == op.w
               x == lhs(op).v
               sh == rhs(op).v
           IN  /\ Len(results) = 1
               /\ IsConstantResult(op, results[1])
               /\ WidthOf(op, results[1]) = N
               /\ LET r == ConstantOf(op, results[1])
                  IN  /\ r \in Patterns(N)
                      /\ \A i \in 0..(N - 1) :
                             Bit(r, i) = IF i + sh < N THEN Bit(x, i + sh)
                                         ELSE Bit(x, N - 1)
                      /\ Signed(N, r) = Signed(N, x) \div Pow2(sh)
    /\ fold(BinaryOn("shrsi", 8, 160, 3)) = <<Attr(8, 244)>>
    /\ Signed(8, 244) = -12
    /\ fold(BinaryOn("shrsi", 8, 96, 3)) = <<Attr(8, 12)>>

\* shrsi of a negative constant by a constant amount in 1..N-1 was folded
C10_Witness ==
    /\ Folded("shrsi")
    /\ BothConstant(op)
    /\ MSB(op.w, lhs(op).v) = 1
    /\ rhs(op).v > 0
    /\ rhs(op).v < op.w
    /\ Len(results) = 1
    /\ results[1].tag = "attr"
    /\ MSB(op.w, results[1].v) = 1

(***************************************************************************)
(* C11: folding shrui on an N-bit constant x and a constant shift s with   *)
(* 0 <= s < N gives the N-bit constant of x shifted right by s with the s  *)
(* high bits zero: the floor of the unsigned value over 2^s; 160:i8 by 3   *)
(* folds to 20 (bits 00010100).                                            *)
(***************************************************************************)
C11_ShRUIFold ==
    /\ (Folded("shrui") /\ BothConstant(op) /\ rhs(op).v < op.w) =>
           LET N == op.w
               x == lhs(op).v
               sh == rhs(op).v
           IN  /\ Len(results) = 1
               /\ IsConstantResult(op, results[1])
               /\ WidthOf(op, results[1]) = N
               /\ LET r == ConstantOf(op, results[1])
                  IN  /\ r \in Patterns(N)
                      /\ \A i \in 0..(N - 1) :
                             Bit(r, i) = IF i + sh < N THEN Bit(x, i + sh)
                                         ELSE 0
                      /\ r = x \div Pow2(sh)
    /\ fold(BinaryOn("shrui", 8, 160, 3)) = <<Attr(8, 20)>>
    /\ Bits(8, 20) = <<0, 0, 1, 0, 1, 0, 0, 0>>

\* shrui of a constant with its top bit set by a constant amount in 1..N-1
\* was folded
C11_Witness ==
    /\ Folded("shrui")
    /\ BothConstant(op)
    /\ MSB(op.w, lhs(op).v) = 1
    /\ rhs(op).v > 0
    /\ rhs(op).v < op.w
    /\ Len(results) = 1
    /\ results[1].tag = "attr"
    /\ results[1].v > 0
    /\ MSB(op.w, results[1].v) = 0

(***************************************************************************)
(* C12: constant folding of the division ops rounds as each op declares.   *)
(* For constant operands with rhs # 0 and no signed overflow: divsi gives  *)
(* the signed quotient rounded toward zero, ceildivsi toward positive      *)
(* infinity, floordivsi toward negative infinity, divui the unsigned       *)
(* quotient rounded toward zero and ceildivui toward positive infinity.    *)
(***************************************************************************)
\* q is the quotient a / b rounded toward zero
RoundedTowardZero(a, b, q) ==
    /\ Abs(q) * Abs(b) <= Abs(a)
    /\ Abs(a) < (Abs(q) + 1) * Abs(b)
    /\ q # 0 => ((q > 0) <=> ((a > 0) = (b > 0)))

\* q is the least integer not below a / b
RoundedUp(a, b, q) ==
    IF b > 0 THEN q * b >= a /\ (q - 1) * b < a
    ELSE q * b <= a /\ (q - 1) * b > a

\* q is the greatest integer not above a / b
RoundedDown(a, b, q) ==
    IF b > 0 THEN q * b <= a /\ (q + 1) * b > a
    ELSE q * b >= a /\ (q + 1) * b < a

DivisionOps == {"divui", "divsi", "ceildivui", "ceildivsi", "floordivsi"}

C12_DivisionFoldRounding ==
    /\ (/\ pc = "folded"
        /\ op.name \in DivisionOps
        /\ BothConstant(op)
        /\ IF op.name \in SignedDivOps
           THEN DivSIDefined(op.w, lhs(op).v, rhs(op).v)
           ELSE DivUIDefined(op.w, lhs(op).v, rhs(op).v)) =>
           /\ Len(results) = 1
           /\ IsConstantResult(op, results[1])
           /\ WidthOf(op, results[1]) = op.w
           /\ ConstantOf(op, results[1]) \in Patterns(op.w)
           /\ LET N == op.w
                  r == ConstantOf(op, results[1])
                  ua == lhs(op).v
                  ub == rhs(op).v
                  sa == Signed(N, lhs(op).v)
                  sb == Signed(N, rhs(op).v)
              IN  CASE op.name = "divsi" -> RoundedTowardZero(sa, sb, Signed(N, r))
                    [] op.name = "ceildivsi" -> RoundedUp(sa, sb, Signed(N, r))
                    [] op.name = "floordivsi" -> RoundedDown(sa, sb, Signed(N, r))
                    [] op.name = "divui" -> RoundedTowardZero(ua, ub, r)
                    [] op.name = "ceildivui" -> RoundedUp(ua, ub, r)
    /\ fold(BinaryOn("divsi", 8, 6, Wrap(8, -2))) = <<Attr(8, Wrap(8, -3))>>
    /\ fold(BinaryOn("ceildivsi", 8, 7, Wrap(8, -2))) = <<Attr(8, Wrap(8, -3))>>
    /\ fold(BinaryOn("floordivsi", 8, 5, Wrap(8, -2))) = <<Attr(8, Wrap(8, -3))>>
    /\ fold(BinaryOn("divui", 16, 6, Wrap(16, -2))) = <<Attr(16, 0)>>
    /\ fold(BinaryOn("ceildivui", 16, 6, Wrap(16, -2))) = <<Attr(16, 1)>>

\* floordivsi of constants of opposite signs with an inexact quotient was
\* folded: the result lies below the quotient rounded toward zero
C12_Witness ==
    /\ Folded("floordivsi")
    /\ BothConstant(op)
    /\ DivSIDefined(op.w, lhs(op).v, rhs(op).v)
    /\ Len(results) = 1
    /\ results[1].tag = "attr"
    /\ Signed(op.w, results[1].v)
           < TruncDiv(Signed(op.w, lhs(op).v), Signed(op.w, rhs(op).v))

(***************************************************************************)
(* C13: for every commutative op and all operands a, b, each a constant or *)
(* a non-constant value, fold(op(a, b)) is equivalent to fold(op(b, a)).   *)
(***************************************************************************)
\* the op with its two operands swapped
Swapped(o) == [o EXCEPT !.args = <<o.args[2], o.args[1]>>]

\* what a fold result stands for: a constant of a type, or an SSA value
Denotes(o, r) ==
    IF IsConstantResult(o, r)
    THEN [const |-> TRUE, w |-> WidthOf(o, r), v |-> ConstantOf(o, r)]
    ELSE [const |-> FALSE, w |-> o.w, v |-> o.args[r.v].v]

\* both folds change nothing, or both give results standing for the same
FoldEquivalent(o1, o2) ==
    /\ Len(fold(o1)) = Len(fold(o2))
    /\ \A i \in 1..Len(fold(o1)) :
           Denotes(o1, fold(o1)[i]) = Denotes(o2, fold(o2)[i])

OperandDenotes(o, i) ==
    [const |-> o.args[i].const, w |-> o.w, v |-> o.args[i].v]

\* the second and third operand of a select are one SSA value
SameBranches(o) == o.args[2] = o.args[3] /\ (o.args[2].const => o.alias)

C14_Idempotence ==
    /\ (pc = "folded" /\ op.name \in {"andi", "ori"} /\ lhs(op) = rhs(op)) =>
           /\ Len(results) = 1
           /\ Denotes(op, results[1]) = OperandDenotes(op, 1)
    /\ (Folded("select") /\ SameBranches(op)) =>
           /\ Len(results) = 1
           /\ Denotes(op, results[1]) = OperandDenotes(op, 2)

\* andi of a non-constant value with itself was folded to that value
C14_Witness ==
    /\ Folded("andi")
    /\ SameOperands(op)
    /\ ~lhs(op).const
    /\ results = <<Existing(1)>>

(***************************************************************************)
(* C15: cast round trip.  For every constant x of width M, truncating the  *)
(* zero extension of x to a width that holds the bits of x gives x again;  *)
(* in particular extending x to any wider width and truncating back to     *)
(* width M gives the bit pattern of x.                                     *)
(***************************************************************************)
\* the number of bits the value x takes
BitWidth(x) == CHOOSE k \in 0..(MaxDstWidth + 1) :
                   x < Pow2(k) /\ \A j \in 0..(k - 1) : x >= Pow2(j)

CastOn(name, m, n, x) == Op(name, m, n, 0, <<ConstOperand(x)>>, FALSE)

\* the operand of the op is the folded zero extension of x : iM
IsExtUIOf(o, m, x) ==
    /\ m < o.w
    /\ o.args[1].const
    /\ fold(CastOn("extui", m, o.w, x)) = <<Attr(o.w, o.args[1].v)>>

C15_CastRoundTrip ==
    Folded("trunci") =>
        \A m \in 1..(op.w - 1) : \A x \in Patterns(m) :
            (IsExtUIOf(op, m, x) /\ op.dw >= BitWidth(x)) =>
                /\ results = <<Attr(op.dw, x)>>
                /\ op.dw = m => Bits(m, results[1].v) = Bits(m, x)

\* the zero extension of a constant with its top bit set was truncated back
\* to the width it came from
C15_Witness ==
    /\ Folded("trunci")
    /\ \E x \in Patterns(op.dw) :
           /\ MSB(op.dw, x) = 1
           /\ op.dw > 1
           /\ IsExtUIOf(op, op.dw, x)
           /\ results = <<Attr(op.dw, x)>>

(***************************************************************************)
(* C16: the verifier rejects with a width-violation error every extui or   *)
(* extsi whose destination width N is not larger than the source width M   *)
(* and every trunci whose destination width N is not smaller than M, and   *)
(* accepts these casts when the strict inequality holds.                   *)
(***************************************************************************)
WidthViolation(o) ==
    IF o.name = "trunci" THEN o.dw >= o.w ELSE o.dw <= o.w

C16_VerifierCastWidths ==
    (op.name \in IToICastOps /\ pc \notin {"idle", "built"}) =>
        IF WidthViolation(op)
        THEN pc = "rejected" /\ diagnostic = "width violation"
        ELSE pc # "rejected" /\ diagnostic = "none"

\* a trunci to its own source width was rejected
C16_Witness ==
    /\ pc = "rejected"
    /\ op.name = "trunci"
    /\ op.dw = op.w
    /\ diagnostic = "width violation"

(***************************************************************************)
(* C17: fold type preservation.  Whenever fold returns a constant for a    *)
(* result of an op, the constant has the op's declared type for that       *)
(* result: the operand type for integer binary ops, the destination type   *)
(* for casts, i1 for cmpi and for the overflow result of addui_extended.   *)
(***************************************************************************)
DeclaredWidth(o, i) ==
    IF o.name = "cmpi" \/ (o.name = "addui_extended" /\ i = 2) THEN 1
    ELSE IF o.name \in IToICastOps THEN o.dw
    ELSE o.w

C17_FoldTypePreservation ==
    pc = "folded" =>
        /\ Len(results) \in {0, NumResults(op)}
        /\ \A i \in 1..Len(results) :
               IsConstantResult(op, results[i]) =>
                   /\ WidthOf(op, results[i]) = DeclaredWidth(op, i)
                   /\ ConstantOf(op, results[i]) \in Patterns(DeclaredWidth(op, i))

\* addui_extended of two constants was folded to a sum of the operand type
\* and an overflow bit of type i1
C17_Witness ==
    /\ Folded("addui_extended")
    /\ op.w > 1
    /\ Len(results) = 2
    /\ results[1].tag = "attr" /\ results[1].w = op.w
    /\ results[2].tag = "attr" /\ results[2].w = 1 /\ results[2].v = 1

(***************************************************************************)
(* C18: folding select with a constant condition gives the true operand    *)
(* when the condition is 1 and the false operand when it is 0, and         *)
(* select(c, x, x) gives x for any condition c; what is returned is the    *)
(* existing value, not a new op.                                           *)
(***************************************************************************)
C18_SelectFold ==
    Folded("select") =>
        /\ (m_Constant(op.args[1]) \/ SameBranches(op)) =>
               /\ Len(results) = 1
               /\ results[1].tag = "value"
               /\ results[1].v \in {2, 3}
        /\ (m_One(op.args[1])) => results = <<Existing(2)>>
        /\ (m_Zero(op.args[1])) =>
               op.args[results[1].v] = op.args[3]
                   /\ (results[1].v = 3 \/ SameBranches(op))
        /\ SameBranches(op) => op.args[results[1].v] = op.args[2]

\* select on the constant condition 0 with two different non-constant
\* branches was folded to its false operand
C18_Witness ==
    /\ Folded("select")
    /\ m_Zero(op.args[1])
    /\ ~op.args[2].const
    /\ ~op.args[3].const
    /\ op.args[2] # op.args[3]
    /\ results = <<Existing(3)>>

(***************************************************************************)
(* C19: self-compare folds.  For every value x, constant or not,           *)
(* fold(cmpi eq x, x) gives the constant 1 and fold(cmpi ne x, x) the      *)
(* constant 0.                                                             *)
(***************************************************************************)
C19_SelfCompareFold ==
    (Folded("cmpi") /\ lhs(op) = rhs(op)) =>
        /\ PredicateName(op.pred) = "eq" => results = <<Attr(1, 1)>>
        /\ PredicateName(op.pred) = "ne" => results = <<Attr(1, 0)>>

\* cmpi ne of a non-constant value with itself was folded to 0
C19_Witness ==
    /\ Folded("cmpi")
    /\ PredicateName(op.pred) = "ne"
    /\ ~lhs(op).const
    /\ lhs(op) = rhs(op)
    /\ results = <<Attr(1, 0)>>

(***************************************************************************)
(* C20: assembly round trip.  For any well-formed op, parsing the printed  *)
(* op gives an op structurally equal to it; the cmpi predicate prints as   *)
(* its keyword and parses back to the same integer code, with eq=0, ne=1,  *)
(* slt=2, sle=3, sgt=4, sge=5, ult=6, ule=7, ugt=8, uge=9, and keywords    *)
(* are matched case-sensitively.                                           *)
(***************************************************************************)
PredicateCode ==
    [eq |-> 0, ne |-> 1, slt |-> 2, sle |-> 3, sgt |-> 4, sge |-> 5,
     ult |-> 6, ule |-> 7, ugt |-> 8, uge |-> 9]

C20_AssemblyRoundTrip ==
    /\ (pc = "parsed" /\ op # NoOp) => parsed = op
    /\ (pc \in {"printed", "parsed"} /\ op.name = "cmpi") =>
           /\ assembly[2].kind = "keyword"
           /\ assembly[2].text \in DOMAIN PredicateCode
           /\ PredicateCode[assembly[2].text] = op.pred
    /\ (pc = "parsed" /\ op = NoOp) =>
           IF assembly[2].text \in DOMAIN PredicateCode
           THEN /\ parsed.name = "cmpi"
                /\ parsed.pred = PredicateCode[assembly[2].text]
                /\ print(parsed) = assembly
           ELSE parsed = ParseError

\* a cmpi ult was printed with the keyword ult and parsed back to itself
C20_Witness ==
    /\ pc = "parsed"
    /\ op.name = "cmpi"
    /\ op.pred = 6
    /\ assembly[2] = Kw("ult")
    /\ ~lhs(op).const
    /\ parsed = op

(***************************************************************************)
(* C21: folding never raises an error.  For every op and every combination *)
(* of constant and non-constant operands, fold emits no diagnostic and     *)
(* returns no change or, for each result of the op, a constant attribute   *)
(* or one of the op's operands; when no operand is a constant and no two   *)
(* operands are one value, so that no rule matches, it returns no change;  *)
(* and the op itself is as it was.                                         *)
(***************************************************************************)
\* one entry of a fold result: a constant of some type, or an operand
WellFormedFoldResult(o, r) ==
    \/ r.tag = "attr" /\ r.w >= 1 /\ r.v \in Patterns(r.w)
    \/ r.tag = "value" /\ r.v \in 1..Len(o.args)

\* no rule of the fold table can match: every rule needs a constant operand
\* or the same value twice
NoRuleMatches(o) ==
    /\ \A i \in 1..Len(o.args) : ~o.args[i].const
    /\ \A i, j \in 1..Len(o.args) : i # j => o.args[i] # o.args[j]

C21_FoldNeverRaises ==
    [][Fold =>
          /\ op' = op
          /\ diagnostic' = "none"
          /\ \/ results' = NoChange
             \/ /\ Len(results') = NumResults(op)
                /\ \A i \in 1..Len(results') :
                       WellFormedFoldResult(op, results'[i])
          /\ NoRuleMatches(op) => results' = NoChange]_vars

\* a division by the constant 0 was folded to no change, and so was an op
\* of two distinct non-constant values
C21_Witness ==
    /\ pc = "folded"
    /\ diagnostic = "none"
    /\ results = NoChange
    /\ \/ op.name = "divui" /\ m_Zero(rhs(op))
       \/ op.name = "addui_extended" /\ NoRuleMatches(op)

(***************************************************************************)
(* C22: the algebraic identity folds are sound.  x+0 -> x, x-0 -> x,       *)
(* x-x -> 0, x*0 -> 0, x*1 -> x, x&0 -> 0, x&-1 -> x, x|0 -> x,            *)
(* x|-1 -> -1, x^0 -> x, x^x -> 0: each fires whether x is a constant or   *)
(* not, and for every N-bit value x the replacement has the value the op   *)
(* computes.                                                               *)
(***************************************************************************)
IdentityOps == {"addi", "subi", "muli", "andi", "ori", "xori"}

\* the N-bit constant c, as what a fold result stands for
ConstantDenotes(w, c) == [const |-> TRUE, w |-> w, v |-> c]

\* the fold gave one result, standing for d
Yields(o, rs, d) == Len(rs) = 1 /\ Denotes(o, rs[1]) = d

\* an identity rule of the op matches: the rhs is the constant of a rule,
\* or both operands are one value
IdentityApplies(o) ==
    \/ o.name \in {"addi", "subi", "muli", "andi", "ori", "xori"}
          /\ rhs(o).const /\ rhs(o).v = 0
    \/ o.name = "muli" /\ rhs(o).const /\ rhs(o).v = 1
    \/ o.name \in {"andi", "ori"} /\ rhs(o).const /\ rhs(o).v = AllOnes(o.w)
    \/ o.name \in {"subi", "xori"} /\ SameOperands(o)

\* the values x may take: its constant, or any N-bit value
ValuesOfLhs(o) == IF lhs(o).const THEN {lhs(o).v} ELSE Patterns(o.w)

\* the value of the rhs when the lhs is x
RhsUnder(o, x) == IF rhs(o).const THEN rhs(o).v ELSE x

\* the value of a fold result when the lhs is x
ValueUnder(o, r, x) ==
    IF r.tag = "attr" THEN r.v
    ELSE IF r.v = 1 THEN x
    ELSE RhsUnder(o, x)

C22_IdentityFoldsSound ==
    (pc = "folded" /\ op.name \in IdentityOps) =>
        LET N == op.w
            X == OperandDenotes(op, 1)
            zero == rhs(op).const /\ rhs(op).v = 0
            one == rhs(op).const /\ rhs(op).v = 1
            ones == rhs(op).const /\ rhs(op).v = AllOnes(N)
        IN  /\ (op.name = "addi" /\ zero) => Yields(op, results, X)
            /\ (op.name = "subi" /\ zero) => Yields(op, results, X)
            /\ (op.name = "subi" /\ SameOperands(op)) =>
                   Yields(op, results, ConstantDenotes(N, 0))
            /\ (op.name = "muli" /\ zero) =>
                   Yields(op, results, ConstantDenotes(N, 0))
            /\ (op.name = "muli" /\ one) => Yields(op, results, X)
            /\ (op.name = "andi" /\ zero) =>
                   Yields(op, results, ConstantDenotes(N, 0))
            /\ (op.name = "andi" /\ ones) => Yields(op, results, X)
            /\ (op.name = "ori" /\ zero) => Yields(op, results, X)
            /\ (op.name = "ori" /\ ones) =>
                   Yields(op, results, ConstantDenotes(N, AllOnes(N)))
            /\ (op.name = "xori" /\ zero) => Yields(op, results, X)
            /\ (op.name = "xori" /\ SameOperands(op)) =>
                   Yields(op, results, ConstantDenotes(N, 0))
            /\ IdentityApplies(op) =>
                   /\ Len(results) = 1
                   /\ \A x \in ValuesOfLhs(op) :
                          ValueUnder(op, results[1], x)
                              = Compute(op.name, N, x, RhsUnder(op, x))

\* ori of a non-constant value with the constant -1 was folded to -1
C22_Witness ==
    /\ Folded("ori")
    /\ ~lhs(op).const
    /\ op.w > 1
    /\ m_AllOnes(op.w, rhs(op))
    /\ Len(results) = 1
    /\ Denotes(op, results[1]) = ConstantDenotes(op.w, AllOnes(op.w))

(***************************************************************************)
(* C23: folding shli, shrui and shrsi on N-bit operands.  When the shift   *)
(* amount is a constant of unsigned value N or more the fold gives no      *)
(* change; when it is the constant 0 the fold gives x; for two constants   *)
(* and an amount in 1..N-1 the fold gives the N-bit constant of the        *)
(* shifted value: x * 2^s modulo 2^N, the floor of unsigned x over 2^s, or *)
(* the floor of signed x over 2^s.                                         *)
(***************************************************************************)
ShiftOps == {"shli", "shrui", "shrsi"}

\* the N-bit pattern of x shifted by s, by arithmetic
Shifted(name, N, x, s) ==
    CASE name = "shli" -> (x * Pow2(s)) % Pow2(N)
      [] name = "shrui" -> x \div Pow2(s)
      [] name = "shrsi" -> (Signed(N, x) \div Pow2(s)) % Pow2(N)

C23_ShiftFold ==
    (pc = "folded" /\ op.name \in ShiftOps) =>
        LET N == op.w
            s == rhs(op).v
        IN  /\ (rhs(op).const /\ s >= N) => results = NoChange
            /\ (rhs(op).const /\ s = 0) =>
                   Yields(op, results, OperandDenotes(op, 1))
            /\ (BothConstant(op) /\ s > 0 /\ s < N) =>
                   Yields(op, results,
                          ConstantDenotes(N, Shifted(op.name, N, lhs(op).v, s)))
            /\ (~lhs(op).const /\ ~(rhs(op).const /\ s = 0)) =>
                   results = NoChange

\* a shift of a constant by a constant amount of the width or more was
\* folded to no change
C23_Witness ==
    /\ pc = "folded"
    /\ op.name \in ShiftOps
    /\ BothConstant(op)
    /\ rhs(op).v >= op.w
    /\ lhs(op).v > 0
    /\ results = NoChange

(***************************************************************************)
(* C29: the fold rules of one op never disagree.  Whenever several fold    *)
(* rules of an op match the same operands (andi of the constant 0 with     *)
(* itself: x&0 -> 0, x&x -> x and the constant fold; subi of the constant  *)
(* 0 with itself; divsi by the constant 1), all of them have an outcome of *)
(* the same value, and the fold has the outcome of one of them: the result *)
(* does not depend on the order the rules are tried in.                    *)
(***************************************************************************)
\* two outcomes stand for the same values
SameReplacement(o, r1, r2) ==
    /\ Len(r1) = Len(r2)
    /\ \A i \in 1..Len(r1) : Denotes(o, r1[i]) = Denotes(o, r2[i])

\* all the rules that match give the same, and the fold gives that
RulesAgree(o, rs) ==
    /\ \A r1 \in foldRules(o), r2 \in foldRules(o) : SameReplacement(o, r1, r2)
    /\ IF foldRules(o) = {} THEN rs = NoChange
       ELSE \E r \in foldRules(o) : SameReplacement(o, rs, r)

C29_AgreeButSignedDivisionOnI1 ==
    (pc = "folded" /\ ~(op.name \in SignedDivOps /\ op.w = 1)) =>
        RulesAgree(op, results)

\* an op that three rules match was folded
C29_SeveralRulesMatch ==
    /\ pc = "folded"
    /\ op.name \in {"subi", "andi"}
    /\ SameOperands(op)
    /\ m_Zero(rhs(op))
    /\ Cardinality(foldRules(op)) >= 2
    /\ Len(results) = 1

(***************************************************************************)
(* C27: range inference for cmpi.  The inferred range is {0,1}, or the     *)
(* singleton [1,1], or the singleton [0,0].  It is [1,1] exactly when the  *)
(* comparison holds for all values of the operand ranges and [0,0] exactly *)
(* when it fails for all of them, the signed predicates being decided on   *)
(* the signed intervals and the unsigned predicates on the unsigned        *)
(* intervals; eq and ne are decided when both ranges are one value or the  *)
(* intervals are disjoint; and the range is never a singleton when some    *)
(* pair of values in the operand ranges gives the other outcome.           *)
(***************************************************************************)
SignedPredicates == {"slt", "sle", "sgt", "sge"}

UnsignedPredicates == {"ult", "ule", "ugt", "uge"}

\* the order relation of a predicate on two integers
Related(n, a, b) ==
    CASE n \in {"slt", "ult"} -> a < b
      [] n \in {"sle", "ule"} -> a <= b
      [] n \in {"sgt", "ugt"} -> a > b
      [] n \in {"sge", "uge"} -> a >= b

\* the interval of a range the predicate is decided on
IntervalFor(n, r) ==
    IF n \in SignedPredicates THEN r.smin..r.smax ELSE r.umin..r.umax

C27_CmpIRange ==
    (pc = "inferred" /\ op.name = "cmpi") =>
        LET n == PredicateName(op.pred)
            l == operandRanges[1]
            r == operandRanges[2]
            L == Concretization(op.w, l)
            R == Concretization(op.w, r)
            true == constantRange(1, 1)
            false == constantRange(1, 0)
            allTrue == \A a \in L, b \in R : CmpI(op.w, op.pred, a, b) = 1
            allFalse == \A a \in L, b \in R : CmpI(op.w, op.pred, a, b) = 0
        IN  /\ resultRange \in {maxRange(1), true, false}
            /\ Concretization(1, maxRange(1)) = {0, 1}
            /\ Concretization(1, true) = {1}
            /\ Concretization(1, false) = {0}
            /\ resultRange = true => allTrue
            /\ resultRange = false => allFalse
            /\ n \in SignedPredicates \cup UnsignedPredicates =>
                   /\ resultRange = true <=>
                          \A a \in IntervalFor(n, l), b \in IntervalFor(n, r) :
                              Related(n, a, b)
                   /\ resultRange = false <=>
                          \A a \in IntervalFor(n, l), b \in IntervalFor(n, r) :
                              ~Related(n, a, b)
                   /\ allTrue => resultRange = true
                   /\ allFalse => resultRange = false
            /\ (n \in {"eq", "ne"} /\ Cardinality(L \cup R) = 1) =>
                   resultRange = IF n = "eq" THEN true ELSE false
            /\ (n \in {"eq", "ne"}
                  /\ (l.umax < r.umin \/ r.umax < l.umin
                        \/ l.smax < r.smin \/ r.smax < l.smin)) =>
                   resultRange = IF n = "eq" THEN false ELSE true

\* an unsigned comparison of two ranges of several values was narrowed to
\* true although their signed intervals overlap
C27_Witness ==
    /\ pc = "inferred"
    /\ op.name = "cmpi"
    /\ PredicateName(op.pred) = "ult"
    /\ Cardinality(Concretization(op.w, operandRanges[1])) > 1
    /\ Cardinality(Concretization(op.w, operandRanges[2])) > 1
    /\ operandRanges[1].smax >= operandRanges[2].smin
    /\ resultRange = constantRange(1, 1)

(***************************************************************************)
(* What an expression computes, and how far it is from canonical form.     *)
(***************************************************************************)
\* the non-constant leaves of an expression
RECURSIVE ValuesOf(_)
ValuesOf(e) ==
    IF e.name = "value" THEN {e.v}
    ELSE UNION {ValuesOf(e.args[i]) : i \in 1..Len(e.args)}

\* the values the non-constant leaves of an expression may take
Valuations(e) == [ValuesOf(e) -> Patterns(MaxCanonWidth)]

\* the result of the expression when its non-constant leaves have the
\* values val
RECURSIVE Eval(_, _)
Eval(e, val) ==
    CASE e.name = "constant" -> e.v
      [] e.name = "value" -> val[e.v] % Pow2(e.w)
      [] e.name = "cmpi" ->
             CmpI(e.w, e.pred, Eval(e.args[1], val), Eval(e.args[2], val))
      [] e.name \in IToICastOps ->
             ComputeCast(e.name, e.args[1].w, e.w, Eval(e.args[1], val))
      [] OTHER ->
             Compute(e.name, e.w, Eval(e.args[1], val), Eval(e.args[2], val))

\* the width of the type of the expression's result
TypeOf(e) == IF e.name = "cmpi" THEN 1 ELSE e.w

\* the replacement computes what the matched op computed, in its type
Refines(from, to) ==
    /\ TypeOf(to) = TypeOf(from)
    /\ ValuesOf(to) \subseteq ValuesOf(from)
    /\ \A val \in Valuations(from) : Eval(to, val) = Eval(from, val)

\* a pattern has just been applied
Rewrote(p) == pc = "canonicalizing" /\ rewrite.pattern = p

\* the patterns that match the expression at its root
RootPatterns(e) == {s.pattern : s \in {t \in applyPatterns(e) : t.from = e}}

(***************************************************************************)
(* C24: cmpi sle x, c -> cmpi slt x, c+1 fires only when c is not the      *)
(* maximum signed value of the width, so that c+1 does not overflow; when  *)
(* it fires, the new comparison has the truth value of the old one for     *)
(* every N-bit x; and when c is the maximum signed value the op is left as *)
(* it is.                                                                  *)
(***************************************************************************)
C24_CmpISleToSlt ==
    /\ Rewrote("CmpISleToSlt") =>
           LET f == rewrite.from
               t == rewrite.to
               N == f.w
               c == f.args[2].v
           IN  /\ f.name = "cmpi"
               /\ PredicateName(f.pred) = "sle"
               /\ m_ConstantExpr(f.args[2])
               /\ Signed(N, c) < Pow2(N - 1) - 1
               /\ t.name = "cmpi"
               /\ PredicateName(t.pred) = "slt"
               /\ t.args[1] = f.args[1]
               /\ m_ConstantExpr(t.args[2])
               /\ t.args[2].w = N
               /\ Signed(N, t.args[2].v) = Signed(N, c) + 1
               /\ \A x \in Patterns(N) :
                      CmpI(N, t.pred, x, t.args[2].v) = CmpI(N, f.pred, x, c)
               /\ Refines(f, t)
    /\ (pc = "canonicalizing" /\ ir.name = "cmpi"
          /\ PredicateName(ir.pred) = "sle" /\ m_ConstantExpr(ir.args[2])
          /\ Signed(ir.w, ir.args[2].v) = Pow2(ir.w - 1) - 1) =>
           applyPatterns(ir) = {}

\* sle of a non-constant value and the constant -1, whose bit pattern is
\* all ones, was rewritten to slt of the value and 0
C24_Witness ==
    /\ Rewrote("CmpISleToSlt")
    /\ rewrite.from.w > 1
    /\ rewrite.from.args[1].name = "value"
    /\ rewrite.from.args[2].v = AllOnes(rewrite.from.w)
    /\ ir = CmpIExpr(getPredicateByName("slt"), rewrite.from.args[1],
                     ConstantExpr(rewrite.from.w, 0))

RECURSIVE Measure(_)
Measure(e) ==
    LET SumOver(args) ==
            IF Len(args) = 0 THEN 0
            ELSE IF Len(args) = 1 THEN Measure(args[1])
            ELSE Measure(args[1]) + Measure(args[2])
    IN  2 + SumOver(e.args)
          + (IF e.name \in {"addi", "muli"} THEN 1 ELSE 0)
          + (IF e.name = "cmpi" /\ PredicateName(e.pred) = "sle" THEN 1 ELSE 0)
          + (IF e.name \in Commutative /\ e.args[1].name = "constant"
                  /\ e.args[2].name # "constant"
             THEN 1 ELSE 0)

CanonicalizationPatterns ==
    {"AddINegConstant", "ConstantToRhs", "SubILHSAddConstant",
     "MulIPow2ToShLI", "XOrINotNot", "CmpISleToSlt", "ExtSIOfExtSI",
     "TruncIOfExtSI"}

C26_CanonicalizationTerminates ==
    pc = "canonicalizing" =>
        /\ Measure(ir) \in Nat
        /\ \A s \in applyPatterns(ir) :
               /\ s.pattern \in CanonicalizationPatterns
               /\ Measure(s.ir) < Measure(ir)
        /\ rewrite.pattern # "none" =>
               /\ ir # rewrite.before
               /\ Measure(ir) < Measure(rewrite.before)

\* an expression that two patterns matched has been rewritten, and what is
\* left matches no pattern
C26_Witness ==
    /\ pc = "canonicalizing"
    /\ rewrite.pattern = "SubILHSAddConstant"
    /\ Cardinality(applyPatterns(rewrite.before)) >= 2
    /\ applyPatterns(ir) = {}

(***************************************************************************)
(* C28: every op the canonicalizer is required to have a pattern for is    *)
(* marked hasCanonicalizer: addi, subi, muli, andi, ori, xori, cmpi,       *)
(* select, extsi, trunci and negf; so every pattern applied matched an op  *)
(* that is marked.                                                         *)
(***************************************************************************)
CanonicalizerRequired ==
    {"addi", "subi", "muli", "andi", "ori", "xori", "cmpi", "select",
     "extsi", "trunci", "negf"}

C28_CanonicalizerMarks ==
    pc = "canonicalizing" =>
        /\ \A name \in CanonicalizerRequired : name \in HasCanonicalizer
        /\ rewrite.pattern # "none" => rewrite.from.name \in HasCanonicalizer

\* the same, leaving out muli and negf
C28_MarksButMulIAndNegF ==
    pc = "canonicalizing" =>
        /\ \A name \in CanonicalizerRequired \ {"muli", "negf"} :
               name \in HasCanonicalizer
        /\ (rewrite.pattern # "none" /\ rewrite.from.name # "muli") =>
               rewrite.from.name \in HasCanonicalizer

\* a pattern matched a muli
C28_MulIRewritten ==
    /\ pc = "canonicalizing"
    /\ rewrite.pattern = "MulIPow2ToShLI"
    /\ rewrite.from.name = "muli"
    /\ rewrite.from.name \notin HasCanonicalizer

====
